---- MODULE Spec2Model ----
(***************************************************************************)
(* hackernews-insights: the bounded LLM-guided crawl controller            *)
(* (browseWithLLMFallback) and the trigger endpoint of the feedback server *)
(* that guards fetchAndFilterStories with the isFetchRunning flag; the     *)
(* store of stories, feedback events and topics with the relevance score   *)
(* and suppression of feedback.ts; selection and delivery; and a pass of   *)
(* fetchAndFilterStories followed candidate by candidate.                  *)
(***************************************************************************)
EXTENDS Integers, Sequences, FiniteSets, TLC

(***************************************************************************)
(* Bounds of the model.                                                    *)
(***************************************************************************)
\* most trigger requests the server receives
MaxTriggers == 3
\* most sources of the registry beyond the three that are always registered
MaxExtraSources == 1
\* largest timeoutMs tried, in clock ticks
MaxTimeout == 1
\* the clock stops advancing at this many ticks after startTime
MaxNow == 2
\* most anchors on a fetched page
MaxLinks == 1
\* most stories in the store
MaxStories == 6
\* most feedback events of the one story of a store without deliveries
MaxEvents == 5
\* most feedback a store with deliveries takes: the number of its stories
\* times the number of its feedback events stays within it
MaxLoad == 2
\* the clock of the store stops advancing after this many half-lives
MaxTicks == 2
\* most calls of deliverNotifications
MaxPasses == 2
\* most store operations that fail
MaxFaults == 1
\* most candidates one call of an ingestor returns
MaxQueue == 2
\* the ids the candidates of a pass carry
MaxCandidateIds == 2
\* most configured seeds of the fallback source
MaxSeeds == 1
\* most feedback events the store takes while passes are followed
MaxPassEvents == 1

(***************************************************************************)
(* The defaults of the limits of a run (FALLBACK_MAX_PAGES, _CLICKS,       *)
(* _DEPTH, _CANDIDATES); a run gets each limit between 1 and its default.  *)
(***************************************************************************)
DefaultMaxPages == 3
DefaultMaxClicks == 2
DefaultMaxDepth == 2
DefaultMaxCandidates == 2

(***************************************************************************)
(* URLs and host names.  A URL is the string the code handles; a host name *)
(* is the sequence of its characters, so that String.endsWith is computed  *)
(* on characters as the code computes it.                                  *)
(***************************************************************************)
ExampleCom == <<"e","x","a","m","p","l","e",".","c","o","m">>
BlogExampleCom == <<"b","l","o","g",".">> \o ExampleCom
NotExampleCom == <<"n","o","t">> \o ExampleCom

SeedS == "https://example.com/blog"
LinkL == "https://example.com/blog/post-1"
SubdomainUrl == "https://blog.example.com/a"
LookalikeUrl == "https://notexample.com/"
BadUrl == "not a url"
\* an anchor without href: HTMLAnchorElement.href is the empty string
NoHref == ""

Urls == {SeedS, LinkL, SubdomainUrl, LookalikeUrl, BadUrl}

\* new URL(url).hostname; new URL throws for a string outside the domain
UrlHostname ==
  (SeedS :> ExampleCom) @@ (LinkL :> ExampleCom) @@
  (SubdomainUrl :> BlogExampleCom) @@ (LookalikeUrl :> NotExampleCom)

UrlParses(url) == url \in DOMAIN UrlHostname

\* createHash("sha256").update(url).digest("hex").slice(0, 12)
Sha256Hex12 ==
  (SeedS :> "38bd6e8ae5da") @@ (LinkL :> "b2117d83f8db") @@
  (SubdomainUrl :> "7120a49e4614") @@ (LookalikeUrl :> "2bb2f59e0ee8") @@
  (BadUrl :> "d8b5bf9b9fd4")

NoSource == ""

\* source.replace(/[^a-z0-9_-]/gi, "")
StripUnsafe ==
  ("fallback-browse" :> "fallback-browse") @@ ("substack:dev" :> "substackdev")

deriveStoryIdFromUrl(url, source) ==
  [prefix |-> IF source # NoSource THEN StripUnsafe[source] ELSE "url",
   hash |-> Sha256Hex12[url]]

EndsWith(s, suffix) ==
  /\ Len(s) >= Len(suffix)
  /\ SubSeq(s, Len(s) - Len(suffix) + 1, Len(s)) = suffix

\* as isDomainAllowed, with hostname.endsWith(domain): the dot is missing
isDomainAllowedNoDot(url, list) ==
  IF ~UrlParses(url) THEN FALSE
  ELSE LET hostname == UrlHostname[url] IN
       IF list = {} THEN FALSE
       ELSE \E domain \in list : hostname = domain \/ EndsWith(hostname, domain)

isDomainAllowed(url, list) ==
  IF ~UrlParses(url) THEN FALSE
  ELSE LET hostname == UrlHostname[url] IN
       IF list = {} THEN FALSE
       ELSE \E domain \in list :
              hostname = domain \/ EndsWith(hostname, <<".">> \o domain)


(***************************************************************************)
(* The decision oracle.  An oracle outcome is what the HTTP call to the    *)
(* model produced: a failure of the call, or the value JSON.parse returned *)
(* for the message content.                                                *)
(***************************************************************************)
JsNull == "<null>"
JsUndefined == "<undefined>"
JsNumber == "<number>"

LinkIdTable == <<"link-0", "link-1", "link-2", "link-3">>
\* `link-${index}`
LinkId(index) == LinkIdTable[index + 1]

IsString(v) == v \notin {JsNull, JsUndefined, JsNumber}

RawActions == {"click", "extract", "stop", "navigate", JsUndefined}
RawTargets == {LinkId(i) : i \in 0..MaxLinks} \cup {JsNull, JsUndefined, JsNumber}

\* timeout: the AbortController fired; transport: fetch rejected or
\* response.ok is false; nonjson: JSON.parse threw;
\* scalar: null, a number, a string or a boolean; array: a JSON array.
\* The target is read only for a click: the other actions come with null.
FailureKinds == {"timeout", "transport"}
OracleOutcomes ==
  {[kind |-> k, action |-> JsUndefined, target |-> JsUndefined] :
     k \in FailureKinds \cup {"nonjson", "scalar", "array"}}
  \cup [kind : {"object"}, action : {"click"}, target : RawTargets]
  \cup [kind : {"object"}, action : RawActions \ {"click"}, target : {JsNull}]

allowedActions == {"click", "extract", "stop"}

\* as sanitizeDecision, with an unrecognised action defaulting to extract
sanitizeDecisionDefaultExtract(raw) ==
  IF raw.kind = "scalar"
  THEN [action |-> "stop", target |-> JsNull, reason |-> "Invalid response shape"]
  ELSE [action |-> IF raw.action \in allowedActions THEN raw.action ELSE "extract",
        target |-> IF IsString(raw.target) \/ raw.target = JsNull
                   THEN raw.target ELSE JsNull,
        reason |-> "model"]

\* as sanitizeDecision, with a target that is no string defaulting to the first link
sanitizeDecisionFirstLink(raw) ==
  IF raw.kind = "scalar"
  THEN [action |-> "stop", target |-> JsNull, reason |-> "Invalid response shape"]
  ELSE [action |-> IF raw.action \in allowedActions THEN raw.action ELSE "stop",
        target |-> IF IsString(raw.target) \/ raw.target = JsNull
                   THEN raw.target ELSE LinkId(0),
        reason |-> "model"]

sanitizeDecision(raw) ==
  IF raw.kind = "scalar"
  THEN [action |-> "stop", target |-> JsNull, reason |-> "Invalid response shape"]
  ELSE [action |-> IF raw.action \in allowedActions THEN raw.action ELSE "stop",
        target |-> IF IsString(raw.target) \/ raw.target = JsNull
                   THEN raw.target ELSE JsNull,
        reason |-> "model"]

getBrowsingDecision(outcome) ==
  IF outcome.kind \in FailureKinds
  THEN [action |-> "stop", target |-> JsNull, reason |-> "Decision service failed"]
  ELSE IF outcome.kind = "nonjson"
  THEN [action |-> "stop", target |-> JsNull, reason |-> "Non-JSON decision returned"]
  ELSE sanitizeDecision(outcome)

(***************************************************************************)
(* The page snapshot.  A page is the sequence of the href of its anchors.  *)
(***************************************************************************)
\* .slice(0, 20) of captureSnapshot
SnapshotLinkCap == 20

RECURSIVE AnchorLinks(_, _)
AnchorLinks(anchors, index) ==
  IF index > Len(anchors) THEN <<>>
  ELSE IF anchors[index] = NoHref THEN AnchorLinks(anchors, index + 1)
  ELSE <<[id |-> LinkId(index - 1), href |-> anchors[index]]>>
         \o AnchorLinks(anchors, index + 1)

captureSnapshot(anchors, url) ==
  LET all == AnchorLinks(anchors, 1) IN
  [url |-> url,
   links |-> SubSeq(all, 1, IF Len(all) < SnapshotLinkCap THEN Len(all) ELSE SnapshotLinkCap)]

Pages == UNION {[1..n -> Urls \cup {NoHref}] : n \in 0..MaxLinks}

\* snapshot.links.find(link => link.id === decision.target)
FindLink(links, target) ==
  IF \E i \in 1..Len(links) : links[i].id = target
  THEN LET i == CHOOSE j \in 1..Len(links) :
                  links[j].id = target /\ \A k \in 1..(j - 1) : links[k].id # target
       IN <<links[i]>>
  ELSE <<>>

(***************************************************************************)
(* State of one run of browseWithLLMFallback.                              *)
(***************************************************************************)
VARIABLES
  options,       \* the FallbackBrowsingOptions of the run, defaults applied
  allowlist,     \* the allowlist in force
  browser,       \* "null", "open" or "closed"
  visited,       \* a Set of strings
  queue,         \* Array<{url, depth}>
  candidates,    \* NormalizedStoryCandidate[]
  clicks,
  pagesVisited,
  cur,           \* {url, depth} of the iteration in progress
  snapshot,      \* the Snapshot of the iteration, until the decision is acted on
  outcome,       \* what the oracle call of the iteration produced
  decision,      \* the BrowsingDecision of the iteration in progress
  exit,          \* how the iteration leaves its try block
  openPages,     \* pages opened by context.newPage() and not yet closed
  now,           \* Date.now() - startTime, in ticks
  pc,            \* the await the run is suspended at
  fetched,       \* the urls handed to page.goto, in order
  log,           \* what the run logged
  returned       \* how the promise of the run settled

crawlVars == <<options, allowlist, browser, visited, queue, candidates, clicks,
               pagesVisited, cur, snapshot, outcome, decision, exit, openPages,
               now, pc, fetched, log, returned>>

(***************************************************************************)
(* State of the feedback server: the flag of the trigger endpoint, the     *)
(* passes (calls of fetchAndFilterStories) it started, and its responses.  *)
(***************************************************************************)
VARIABLES
  isFetchRunning,  \* the module-level flag
  passes,          \* per trigger request: the pass it started, if any
  triggers,        \* trigger requests handled so far
  responses,       \* the response to each, in order
  ingestion        \* the pass in flight, followed candidate by candidate

serverVars == <<isFetchRunning, passes, triggers, responses, ingestion>>

\* the store, the clock and the state of deliverNotifications
VARIABLES
  stories,         \* the Story rows, by id
  feedback_events,  \* the FeedbackEvent rows, in the order of their creation
  topics,          \* Topic.score, by topic id
  storyTopics,     \* the StoryTopic rows, as pairs <<storyId, topicId>>
  clock,           \* Date.now(), in hours
  delivery,        \* deliverNotifications: where it is and what it holds
  faults           \* store operations that have failed so far

storeVars == <<stories, feedback_events, topics, storyTopics, clock, delivery,
               faults>>

vars == <<crawlVars, serverVars, storeVars>>

NoPage == [url |-> "", depth |-> 0]
NoSnapshot == [url |-> "", links |-> <<>>]
NoOutcome == [kind |-> "none", action |-> JsUndefined, target |-> JsUndefined]
NoDecision == [action |-> "none", target |-> JsNull, reason |-> ""]
Pending == [status |-> "pending", value |-> <<>>]

Allowlists == {{}, {ExampleCom}, {BlogExampleCom}}

CrawlInit ==
  /\ options \in [sourceId : {"fallback-browse"}, seedUrl : Urls,
                  domainAllowlist : Allowlists, maxPages : 1..DefaultMaxPages,
                  maxClicks : 1..DefaultMaxClicks, maxDepth : 1..DefaultMaxDepth,
                  maxCandidates : 1..DefaultMaxCandidates,
                  timeoutMs : 1..MaxTimeout]
  /\ allowlist = options.domainAllowlist
  /\ browser = "null"
  /\ visited = {}
  /\ queue = <<[url |-> options.seedUrl, depth |-> 0]>>
  /\ candidates = <<>>
  /\ clicks = 0
  /\ pagesVisited = 0
  /\ cur = NoPage
  /\ snapshot = NoSnapshot
  /\ outcome = NoOutcome
  /\ decision = NoDecision
  /\ exit = "continue"
  /\ openPages = 0
  /\ now = 0
  /\ pc = "start"
  /\ fetched = <<>>
  /\ log = <<>>
  /\ returned = Pending


(***************************************************************************)
(* Exceptions.  A rejected await inside the per-page try block is caught   *)
(* by its catch clause; anywhere else inside the outer try block (also in  *)
(* the finally clause of the per-page block) by the outer catch clause.    *)
(***************************************************************************)
\* as CatchAt, with chromium.launch called before the outer try block
CatchAtLaunchOutsideTry(site) ==
  IF site \in {"goto", "extract"} THEN "inner"
  ELSE IF site = "launch" THEN "none" ELSE "outer"

CatchAt(site) == IF site \in {"goto", "extract"} THEN "inner" ELSE "outer"

\* a rejection that the per-page catch clause does not handle
EscapeAs(site) == IF CatchAt(site) = "outer" THEN "error" ELSE "uncaught"

\* the outer catch clause (logs), or no clause at all; the finally clause follows
RaiseOuter(site) ==
  /\ exit' = EscapeAs(site)
  /\ log' = IF CatchAt(site) = "outer" THEN Append(log, <<"browser-failure">>) ELSE log
  /\ pc' = "finally"

\* a rejection inside the per-page try block; page.close() follows
RaiseInner(site) ==
  /\ exit' = IF CatchAt(site) = "inner" THEN "continue" ELSE EscapeAs(site)
  /\ log' = IF CatchAt(site) = "inner" THEN Append(log, <<"failed-to-browse">>) ELSE log
  /\ pc' = "pageClose"

(***************************************************************************)
(* Lines 313-324: the allowlist in force.                                  *)
(***************************************************************************)
\* as DeriveAllowlist, without the derivation from the seed
DeriveAllowlistAsGiven(domainAllowlist, seedUrl) == domainAllowlist

DeriveAllowlist(domainAllowlist, seedUrl) ==
  IF domainAllowlist # {} THEN domainAllowlist
  ELSE IF UrlParses(seedUrl) THEN {UrlHostname[seedUrl]} ELSE {}

BrowseStart ==
  /\ pc = "start"
  /\ allowlist' = DeriveAllowlist(options.domainAllowlist, options.seedUrl)
  /\ IF allowlist' = {}
     THEN /\ log' = Append(log, <<"no-allowlist">>)
          /\ returned' = [status |-> "returned", value |-> <<>>]
          /\ pc' = "done"
     ELSE /\ pc' = "launch"
          /\ UNCHANGED <<log, returned>>
  /\ UNCHANGED <<storeVars, serverVars, options, browser, visited, queue, candidates, clicks, pagesVisited,
                 cur, snapshot, outcome, decision, exit, openPages, now, fetched>>

(***************************************************************************)
(* Lines 327-332: chromium.launch, browser.newContext, context.route.      *)
(***************************************************************************)
LaunchOk ==
  /\ pc = "launch"
  /\ browser' = "open"
  /\ pc' = "loop"
  /\ UNCHANGED <<storeVars, serverVars, options, allowlist, visited, queue, candidates, clicks, pagesVisited,
                 cur, snapshot, outcome, decision, exit, openPages, now, fetched,
                 log, returned>>

\* launch rejects (browser stays null), or newContext or route rejects
LaunchFail ==
  /\ pc = "launch"
  /\ \E b \in {"null", "open"} : browser' = b
  /\ RaiseOuter("launch")
  /\ UNCHANGED <<storeVars, serverVars, options, allowlist, visited, queue, candidates, clicks, pagesVisited,
                 cur, snapshot, outcome, decision, openPages, now, fetched, returned>>

(***************************************************************************)
(* Lines 334-360: the head of one loop iteration, up to context.newPage(). *)
(***************************************************************************)
\* as MarkVisited, with visited.add(url) forgotten
MarkVisitedForgotten(set, url) == set

\* line 359
MarkVisited(set, url) == set \cup {url}

\* as LoopVerdict, without the elapsed-time check
LoopVerdictNoTimeout ==
  IF queue = <<>> THEN "drained"
  ELSE IF pagesVisited >= options.maxPages THEN "max-pages"
  ELSE IF Head(queue).url \in visited THEN "duplicate"
  ELSE IF ~isDomainAllowed(Head(queue).url, allowlist) THEN "outside-allowlist"
  ELSE "visit"

LoopVerdict ==
  IF queue = <<>> THEN "drained"
  ELSE IF now > options.timeoutMs THEN "timeout"
  ELSE IF pagesVisited >= options.maxPages THEN "max-pages"
  ELSE IF Head(queue).url \in visited THEN "duplicate"
  ELSE IF ~isDomainAllowed(Head(queue).url, allowlist) THEN "outside-allowlist"
  ELSE "visit"

\* as QueueShift, reading the head of the queue without removing it
QueuePeek(q) == q

\* line 346: what queue.shift() leaves in the queue
QueueShift(q) == Tail(q)

LoopIteration ==
  /\ pc = "loop"
  /\ LET decided == LoopVerdict IN
     /\ log' = IF decided = "drained" THEN log ELSE Append(log, <<decided>>)
     /\ queue' = IF decided \in {"duplicate", "outside-allowlist", "visit"}
                 THEN QueueShift(queue) ELSE queue
     /\ pc' = CASE decided \in {"drained", "timeout", "max-pages"} -> "finally"
                [] decided \in {"duplicate", "outside-allowlist"} -> "loop"
                [] OTHER -> "newPage"
     /\ IF decided = "visit"
        THEN /\ visited' = MarkVisited(visited, Head(queue).url)
             /\ pagesVisited' = pagesVisited + 1
             /\ cur' = Head(queue)
             /\ snapshot' = NoSnapshot
             /\ outcome' = NoOutcome
             /\ decision' = NoDecision
        ELSE UNCHANGED <<visited, pagesVisited, cur, snapshot, outcome, decision>>
  /\ UNCHANGED <<storeVars, serverVars, options, allowlist, browser, candidates, clicks, exit, openPages,
                 now, fetched, returned>>

NewPageOk ==
  /\ pc = "newPage"
  /\ openPages' = openPages + 1
  /\ pc' = "goto"
  /\ UNCHANGED <<storeVars, serverVars, options, allowlist, browser, visited, queue, candidates, clicks,
                 pagesVisited, cur, snapshot, outcome, decision, exit, now, fetched,
                 log, returned>>

NewPageFail ==
  /\ pc = "newPage"
  /\ RaiseOuter("newPage")
  /\ UNCHANGED <<storeVars, serverVars, options, allowlist, browser, visited, queue, candidates, clicks,
                 pagesVisited, cur, snapshot, outcome, decision, openPages, now,
                 fetched, returned>>

(***************************************************************************)
(* Lines 364-365: page.goto and captureSnapshot.                           *)
(***************************************************************************)
FetchOk ==
  /\ pc = "goto"
  /\ \E anchors \in Pages : snapshot' = captureSnapshot(anchors, cur.url)
  /\ fetched' = Append(fetched, cur.url)
  /\ pc' = "decide"
  /\ UNCHANGED <<storeVars, serverVars, options, allowlist, browser, visited, queue, candidates, clicks,
                 pagesVisited, cur, outcome, decision, exit, openPages, now, log,
                 returned>>

FetchFail ==
  /\ pc = "goto"
  /\ fetched' = Append(fetched, cur.url)
  /\ RaiseInner("goto")
  /\ UNCHANGED <<storeVars, serverVars, options, allowlist, browser, visited, queue, candidates, clicks,
                 pagesVisited, cur, snapshot, outcome, decision, openPages, now,
                 returned>>


(***************************************************************************)
(* Lines 366-405: the oracle call and the branch on its decision.          *)
(***************************************************************************)
\* as ClickVerdict, without the maxClicks check
ClickVerdictNoMaxClicks(d, links, depth) ==
  LET found == FindLink(links, d.target) IN
  IF found = <<>> THEN "invalid-target"
  ELSE IF ~isDomainAllowed(found[1].href, allowlist) THEN "blocked"
  ELSE IF found[1].href \in visited THEN "duplicate-click"
  ELSE IF depth + 1 > options.maxDepth THEN "max-depth"
  ELSE "enqueue"

\* as ClickVerdict, without the depth check
ClickVerdictNoMaxDepth(d, links, depth) ==
  LET found == FindLink(links, d.target) IN
  IF clicks >= options.maxClicks THEN "max-clicks"
  ELSE IF found = <<>> THEN "invalid-target"
  ELSE IF ~isDomainAllowed(found[1].href, allowlist) THEN "blocked"
  ELSE IF found[1].href \in visited THEN "duplicate-click"
  ELSE "enqueue"

\* lines 385-401: what a click decision leads to
ClickVerdict(d, links, depth) ==
  LET found == FindLink(links, d.target) IN
  IF clicks >= options.maxClicks THEN "max-clicks"
  ELSE IF found = <<>> THEN "invalid-target"
  ELSE IF ~isDomainAllowed(found[1].href, allowlist) THEN "blocked"
  ELSE IF found[1].href \in visited THEN "duplicate-click"
  ELSE IF depth + 1 > options.maxDepth THEN "max-depth"
  ELSE "enqueue"

Decide ==
  /\ pc = "decide"
  /\ \E o \in OracleOutcomes :
       LET d == getBrowsingDecision(o)
           said == IF o.kind \in FailureKinds
                   THEN <<<<"decision-failed">>, <<"decision", d.action, d.target>>>>
                   ELSE <<<<"decision", d.action, d.target>>>>
           decided == ClickVerdict(d, snapshot.links, cur.depth)
       IN
       /\ outcome' = o
       /\ decision' = d
       /\ snapshot' = NoSnapshot
       /\ IF d.action = "extract"
          THEN /\ log' = log \o said
               /\ pc' = "extract"
               /\ UNCHANGED <<queue, clicks, exit>>
          ELSE IF d.action = "click"
          THEN /\ log' = IF decided = "enqueue" THEN log \o said
                         ELSE (log \o said) \o <<<<decided>>>>
               /\ queue' = IF decided = "enqueue"
                           THEN Append(queue,
                                  [url |-> FindLink(snapshot.links, d.target)[1].href,
                                   depth |-> cur.depth + 1])
                           ELSE queue
               /\ clicks' = IF decided = "enqueue" THEN clicks + 1 ELSE clicks
               /\ exit' = IF decided = "max-clicks" THEN "break" ELSE "continue"
               /\ pc' = "pageClose"
          ELSE /\ log' = (log \o said) \o <<<<"stopping">>>>
               /\ exit' = "break"
               /\ pc' = "pageClose"
               /\ UNCHANGED <<queue, clicks>>
  /\ UNCHANGED <<storeVars, serverVars, options, allowlist, browser, visited, candidates, pagesVisited, cur,
                 openPages, now, fetched, returned>>

\* as MakeCandidate, with the source id handed to deriveStoryIdFromUrl
MakeCandidateWithSource(url, sourceId) ==
  [id |-> deriveStoryIdFromUrl(url, sourceId), url |-> url, sourceId |-> sourceId]

\* lines 373-379
MakeCandidate(url, sourceId) ==
  [id |-> deriveStoryIdFromUrl(url, NoSource), url |-> url, sourceId |-> sourceId]

\* lines 372-383
ExtractOk ==
  /\ pc = "extract"
  /\ candidates' = Append(candidates, MakeCandidate(cur.url, options.sourceId))
  /\ IF Len(candidates') >= options.maxCandidates
     THEN /\ log' = Append(log, <<"max-candidates">>)
          /\ exit' = "break"
     ELSE /\ exit' = "continue"
          /\ UNCHANGED log
  /\ pc' = "pageClose"
  /\ UNCHANGED <<storeVars, serverVars, options, allowlist, browser, visited, queue, clicks, pagesVisited,
                 cur, snapshot, outcome, decision, openPages, now, fetched, returned>>

\* extractContentFromPage rejects
ExtractFail ==
  /\ pc = "extract"
  /\ RaiseInner("extract")
  /\ UNCHANGED <<storeVars, serverVars, options, allowlist, browser, visited, queue, candidates, clicks,
                 pagesVisited, cur, snapshot, outcome, decision, openPages, now,
                 fetched, returned>>

(***************************************************************************)
(* Lines 408-410: the finally clause of the per-page block.                *)
(***************************************************************************)
PageCloseOk ==
  /\ pc = "pageClose"
  /\ openPages' = openPages - 1
  /\ pc' = IF exit = "continue" THEN "loop" ELSE "finally"
  /\ log' = IF exit = "error" THEN Append(log, <<"browser-failure">>) ELSE log
  /\ UNCHANGED <<storeVars, serverVars, options, allowlist, browser, visited, queue, candidates, clicks,
                 pagesVisited, cur, snapshot, outcome, decision, exit, now, fetched,
                 returned>>

\* page.close() rejects: the rejection replaces how the block was left
PageCloseFail ==
  /\ pc = "pageClose"
  /\ RaiseOuter("pageClose")
  /\ UNCHANGED <<storeVars, serverVars, options, allowlist, browser, visited, queue, candidates, clicks,
                 pagesVisited, cur, snapshot, outcome, decision, openPages, now,
                 fetched, returned>>

(***************************************************************************)
(* Lines 414-418: the outer finally clause and the return.  Playwright's   *)
(* Browser.close() resolves also when the browser is already gone, and it  *)
(* closes every page of the browser.                                       *)
(***************************************************************************)
\* as BrowserAfterRun, with browser.close() at the end of the try block
BrowserAfterRunNoFinally(b, how) ==
  IF b = "open" /\ how \notin {"error", "uncaught"} THEN "closed" ELSE b

\* line 415, reached however the try block was left
BrowserAfterRun(b, how) == IF b = "open" THEN "closed" ELSE b

BrowserClose ==
  /\ pc = "finally"
  /\ browser' = BrowserAfterRun(browser, exit)
  /\ openPages' = IF browser' = "closed" THEN 0 ELSE openPages
  /\ returned' = IF exit = "uncaught"
                 THEN [status |-> "threw", value |-> <<>>]
                 ELSE [status |-> "returned", value |-> candidates]
  /\ pc' = "done"
  /\ UNCHANGED <<storeVars, serverVars, options, allowlist, visited, queue, candidates, clicks, pagesVisited,
                 cur, snapshot, outcome, decision, exit, now, fetched, log>>

(***************************************************************************)
(* Wall-clock time passes while the run is suspended.                      *)
(***************************************************************************)
\* the two suspension points that last: the page fetch and the oracle call
AwaitPoints == {"goto", "decide"}

Tick ==
  /\ pc \in AwaitPoints
  /\ now < MaxNow
  /\ now' = now + 1
  /\ UNCHANGED <<storeVars, serverVars, options, allowlist, browser, visited, queue, candidates, clicks,
                 pagesVisited, cur, snapshot, outcome, decision, exit, openPages,
                 pc, fetched, log, returned>>

(***************************************************************************)
(* The trigger endpoint, POST /api/trigger-fetch, and the pass it starts.  *)
(* A pass awaits the ingestion of each source of the registry in turn and  *)
(* then deliverNotifications; a rejected await rejects the pass, as        *)
(* fetchAndFilterStories has no catch clause.                              *)
(***************************************************************************)
\* registry.push(hackernoon, hackerNews, fallbackBrowsing)
AlwaysRegistered == 3

RegistrySizes == AlwaysRegistered..(AlwaysRegistered + MaxExtraSources)

NoPass == [pc |-> "none", at |-> 0, n |-> 0]

\* no pass has been followed yet; while processCandidates runs, candidate is
\* the id of the candidate last handed to processCandidate and asked whether
\* that call reached checkRelevance
NoIngestion ==
  [pc |-> "none", registry |-> <<>>, seeds |-> 0, at |-> 0, page |-> 0,
   seed |-> 0, relevantStoriesFound |-> 0, queue |-> <<>>, run |-> 0,
   started |-> 0, error |-> "none", unhandled |-> FALSE,
   candidate |-> 0, asked |-> FALSE]

ServerInit ==
  /\ isFetchRunning = FALSE
  /\ passes = [k \in 1..MaxTriggers |-> NoPass]
  /\ triggers = 0
  /\ responses = <<>>
  /\ ingestion = NoIngestion

\* as TriggerRejected, without the check of the flag
TriggerRejectedNever(flag) == FALSE

\* line 215
TriggerRejected(flag) == flag

\* the pass is suspended at an await of fetchAndFilterStories
InFlight(k) == passes[k].pc \in {"ingest", "deliver"}

\* lines 214-232; the call of fetchAndFilterStories runs up to its first await
TriggerFetch ==
  /\ triggers < MaxTriggers
  /\ triggers' = triggers + 1
  /\ IF TriggerRejected(isFetchRunning)
     THEN /\ responses' = Append(responses, [code |-> 429, status |-> "busy"])
          /\ UNCHANGED <<isFetchRunning, passes>>
     ELSE /\ isFetchRunning' = TRUE
          /\ \E n \in RegistrySizes :
               passes' = [passes EXCEPT ![triggers'] = [pc |-> "ingest", at |-> 1, n |-> n]]
          /\ responses' = Append(responses, [code |-> 200, status |-> "ok"])
  /\ UNCHANGED <<ingestion, crawlVars, storeVars>>

\* the ingestion of one source returns
PassIngest(k) ==
  /\ passes[k].pc = "ingest"
  /\ passes' = [passes EXCEPT ![k] =
                  IF passes[k].at < passes[k].n
                  THEN [passes[k] EXCEPT !.at = passes[k].at + 1]
                  ELSE [passes[k] EXCEPT !.pc = "deliver"]]
  /\ UNCHANGED <<isFetchRunning, triggers, responses, ingestion, crawlVars,
                 storeVars>>

\* the ingestion of one source rejects
PassIngestFail(k) ==
  /\ passes[k].pc = "ingest"
  /\ passes' = [passes EXCEPT ![k].pc = "rejected"]
  /\ UNCHANGED <<isFetchRunning, triggers, responses, ingestion, crawlVars,
                 storeVars>>

\* deliverNotifications returns
PassDeliver(k) ==
  /\ passes[k].pc = "deliver"
  /\ passes' = [passes EXCEPT ![k].pc = "resolved"]
  /\ UNCHANGED <<isFetchRunning, triggers, responses, ingestion, crawlVars,
                 storeVars>>

\* deliverNotifications rejects
PassDeliverFail(k) ==
  /\ passes[k].pc = "deliver"
  /\ passes' = [passes EXCEPT ![k].pc = "rejected"]
  /\ UNCHANGED <<isFetchRunning, triggers, responses, ingestion, crawlVars,
                 storeVars>>

\* as FlagAfterPass, the callback registered with .then(): it is skipped
\* when the pass is rejected
FlagAfterPassFulfilledOnly(flag, settled) ==
  IF settled = "resolved" THEN FALSE ELSE flag

\* lines 225-227: the callback runs however the pass settled
FlagAfterPass(flag, settled) == FALSE

\* lines 225-227: the callback of .finally()
PassFinally(k) ==
  /\ passes[k].pc \in {"resolved", "rejected"}
  /\ isFetchRunning' = FlagAfterPass(isFetchRunning, passes[k].pc)
  /\ passes' = [passes EXCEPT ![k].pc =
                  IF passes[k].pc = "resolved" THEN "ended" ELSE "failed"]
  /\ UNCHANGED <<triggers, responses, ingestion, crawlVars, storeVars>>

(***************************************************************************)
(* Feedback events, relevance scores and suppression (feedback.ts).        *)
(*                                                                         *)
(* Time is counted in hours; the clock is read at whole multiples of the   *)
(* half-life of the decay, so that every decay factor is a power of 1/2    *)
(* and a score is computed exactly.  An aggregate is kept as a whole       *)
(* number of 1/Den units; a stored score is a whole number, as in the      *)
(* store.  The reasons of a computation are not modelled.                  *)
(***************************************************************************)
SCORE_SCALE == 100
DECAY_HALF_LIFE_HOURS == 36
SUPPRESSION_THRESHOLD == -150
MIN_SUPPRESSION_HOURS == 6
MAX_SUPPRESSION_HOURS == 48
SUPPRESSION_HOURS_PER_POINT == 2
INITIAL_RELEVANCE_SCORE == 150
\* TAG_ADJUSTMENT_FACTOR = 0.1 and SOURCE_ADJUSTMENT_FACTOR = 0.05, as the
\* numbers an amount is divided by
TAG_ADJUSTMENT_DIVISOR == 10
SOURCE_ADJUSTMENT_DIVISOR == 20
\* TOPIC_IMPLICIT_SCALE = 0.4 and TOPIC_EXPLICIT_SCALE = 0.7, in tenths
TOPIC_IMPLICIT_SCALE == 4
TOPIC_EXPLICIT_SCALE == 7

FEEDBACK_ACTIONS == {"LIKE", "DISLIKE", "SAVE", "OPENED", "IGNORED"}
FeedbackConfidences == {"explicit", "implicit"}
FeedbackSources == {"pushover", "system", "dashboard"}

\* the weights, in hundredths
EXPLICIT_WEIGHTS ==
  ("LIKE" :> 100) @@ ("DISLIKE" :> -100) @@ ("SAVE" :> 150) @@
  ("OPENED" :> 0) @@ ("IGNORED" :> 0)

IMPLICIT_WEIGHTS ==
  ("LIKE" :> 0) @@ ("DISLIKE" :> 0) @@ ("SAVE" :> 0) @@
  ("OPENED" :> 30) @@ ("IGNORED" :> -20)

\* a Date column that holds NULL, and a score column that holds NULL
NullDate == -1
NullScore == -1

RECURSIVE Pow2(_)
Pow2(k) == IF k = 0 THEN 1 ELSE 2 * Pow2(k - 1)

\* the denominator of an aggregate: events are at most MaxTicks half-lives
\* old, and the source adjustment halves once more
Den == 2 * Pow2(MaxTicks)

Abs(x) == IF x < 0 THEN -x ELSE x
Min2(a, b) == IF a < b THEN a ELSE b
Max2(a, b) == IF a > b THEN a ELSE b

\* Math.round(num / den), den > 0: the nearest whole number, a half going up
MathRound(num, den) == (2 * num + den) \div (2 * den)

\* lines 126-137: 1 / decayFactor(createdAt), read at the time now
decayFactor(createdAt, at) ==
  Pow2(Max2(0, at - createdAt) \div DECAY_HALF_LIFE_HOURS)

\* as calculateSuppressionHours, without the lower end of the clamp
calculateSuppressionHoursNoMinimum(score) ==
  Min2(MAX_SUPPRESSION_HOURS,
       MathRound(Abs(score), SCORE_SCALE) * SUPPRESSION_HOURS_PER_POINT)

\* lines 139-144
calculateSuppressionHours(score) ==
  Min2(MAX_SUPPRESSION_HOURS,
       Max2(MIN_SUPPRESSION_HOURS,
            MathRound(Abs(score), SCORE_SCALE) * SUPPRESSION_HOURS_PER_POINT))

HasPrefix(s, prefix) ==
  Len(s) >= Len(prefix) /\ SubSeq(s, 1, Len(prefix)) = prefix

HostPrefixes == <<<<"w","w","w",".">>, <<"m",".">>, <<"m","o","b","i","l","e",".">>>>

\* hostname.replace(/^(www\.|m\.|mobile\.)/, '')
StripHostPrefix(host) ==
  IF \E i \in 1..Len(HostPrefixes) : HasPrefix(host, HostPrefixes[i])
  THEN LET i == CHOOSE j \in 1..Len(HostPrefixes) :
                  /\ HasPrefix(host, HostPrefixes[j])
                  /\ \A k \in 1..(j - 1) : ~HasPrefix(host, HostPrefixes[k])
       IN SubSeq(host, Len(HostPrefixes[i]) + 1, Len(host))
  ELSE host

\* lines 156-175: the host of the story, <<>> when it has none
storyHost(url) ==
  IF url # JsNull /\ UrlParses(url) THEN StripHostPrefix(UrlHostname[url])
  ELSE <<>>

\* lines 181-184: the weight of an event, in hundredths
EventWeight(event) ==
  IF event.action \notin FEEDBACK_ACTIONS THEN 0
  ELSE IF event.confidence = "implicit" THEN IMPLICIT_WEIGHTS[event.action]
  ELSE EXPLICIT_WEIGHTS[event.action]

\* lines 187-188: weight * SCORE_SCALE * decay, in 1/Den units
Contribution(event, at) ==
  (EventWeight(event) * SCORE_SCALE * Den)
    \div (100 * decayFactor(event.createdAt, at))

RECURSIVE SumContributions(_, _)
SumContributions(events, at) ==
  IF events = <<>> THEN 0
  ELSE Contribution(Head(events), at) + SumContributions(Tail(events), at)

EventsOfSource(events, source) ==
  SelectSeq(events, LAMBDA e : e.source = source)

\* lines 177-208: the aggregate after the events and the two adjustments, in
\* 1/Den units
Aggregate(story, feedbackEvents, at) ==
  LET total == SumContributions(feedbackEvents, at)
      tagAdjustment ==
        IF storyHost(story.url) # <<>> THEN total \div TAG_ADJUSTMENT_DIVISOR ELSE 0
      sourceAdjustment ==
        LET OfSource(s) == SumContributions(EventsOfSource(feedbackEvents, s), at)
        IN (OfSource("pushover") \div SOURCE_ADJUSTMENT_DIVISOR)
           + (OfSource("system") \div SOURCE_ADJUSTMENT_DIVISOR)
           + (OfSource("dashboard") \div SOURCE_ADJUSTMENT_DIVISOR)
  IN story.relevanceScore * Den + total + tagAdjustment + sourceAdjustment

\* as computeRelevanceScore, without the branch of line 216
computeRelevanceScoreNoRecovery(story, feedbackEvents, at) ==
  LET roundedScore == MathRound(Aggregate(story, feedbackEvents, at), Den)
  IN [relevanceScore |-> roundedScore,
      suppressedUntil |->
        IF roundedScore < SUPPRESSION_THRESHOLD
        THEN at + calculateSuppressionHours(roundedScore)
        ELSE story.suppressedUntil]

\* as computeRelevanceScore, the aggregate starting from SCORE_SCALE
computeRelevanceScoreFromScale(story, feedbackEvents, at) ==
  LET roundedScore ==
        MathRound(Aggregate([story EXCEPT !.relevanceScore = SCORE_SCALE],
                            feedbackEvents, at), Den)
  IN [relevanceScore |-> roundedScore,
      suppressedUntil |->
        IF roundedScore < SUPPRESSION_THRESHOLD
        THEN at + calculateSuppressionHours(roundedScore)
        ELSE IF roundedScore > 0 /\ story.suppressedUntil # NullDate
                /\ story.suppressedUntil > at
        THEN NullDate
        ELSE story.suppressedUntil]

\* as computeRelevanceScore, clearing the suppression whenever the score is
\* not below the threshold
computeRelevanceScoreClearsUnlessBelow(story, feedbackEvents, at) ==
  LET roundedScore == MathRound(Aggregate(story, feedbackEvents, at), Den)
  IN [relevanceScore |-> roundedScore,
      suppressedUntil |->
        IF roundedScore < SUPPRESSION_THRESHOLD
        THEN at + calculateSuppressionHours(roundedScore)
        ELSE NullDate]

\* lines 150-223, with Date.now() = at
computeRelevanceScore(story, feedbackEvents, at) ==
  LET roundedScore == MathRound(Aggregate(story, feedbackEvents, at), Den)
  IN [relevanceScore |-> roundedScore,
      suppressedUntil |->
        IF roundedScore < SUPPRESSION_THRESHOLD
        THEN at + calculateSuppressionHours(roundedScore)
        ELSE IF roundedScore > 0 /\ story.suppressedUntil # NullDate
                /\ story.suppressedUntil > at
        THEN NullDate
        ELSE story.suppressedUntil]

\* as TopicDelta, without the scale of the confidence
TopicDeltaUnscaled(payload) ==
  MathRound((IF payload.confidence = "implicit"
             THEN IMPLICIT_WEIGHTS[payload.action]
             ELSE EXPLICIT_WEIGHTS[payload.action]) * SCORE_SCALE, 100)

\* lines 255-260: the amount added to a linked topic
TopicDelta(payload) ==
  LET topicDelta == IF payload.confidence = "implicit"
                    THEN IMPLICIT_WEIGHTS[payload.action]
                    ELSE EXPLICIT_WEIGHTS[payload.action]
      scale == IF payload.confidence = "implicit"
               THEN TOPIC_IMPLICIT_SCALE ELSE TOPIC_EXPLICIT_SCALE
  IN MathRound(topicDelta * SCORE_SCALE * scale, 1000)

(***************************************************************************)
(* The store: Story, FeedbackEvent, Topic and StoryTopic rows.             *)
(***************************************************************************)
StoryIds == 1..MaxStories
TopicIds == 1..3

\* the external score of each story: none, then small numbers with a tie
ExternalScores ==
  [i \in 1..(MaxStories + 1) |-> IF i = 1 THEN NullScore ELSE (i \div 2) - 1]

\* the topics each story is linked to: two, one, none
LinkedTopics(id) == IF id = 1 THEN {1, 2} ELSE IF id = 2 THEN {2} ELSE {}

\* lines 55-63 of insightTracker.ts and saveStory: a story as ingestion stores it
NewStory(url, score) ==
  [url |-> url, score |-> score, relevanceScore |-> INITIAL_RELEVANCE_SCORE,
   suppressedUntil |-> NullDate, notificationSent |-> FALSE,
   lastNotifiedAt |-> NullDate]

\* sent: the stories handed to the sink by the pass; undelivered: those of
\* them whose notification failed; handed: every story handed to the sink
\* by any pass
NoDelivery ==
  [pc |-> "idle", rows |-> <<>>, at |-> 0, sent |-> <<>>, runs |-> 0,
   undelivered |-> {}, handed |-> <<>>]

\* a store of n stories that ingestion has stored
StoreOf(n) ==
  /\ \E url \in {LinkL, JsNull} :
       stories = [i \in 1..n |->
                    NewStory(IF i = 1 THEN url ELSE LinkL, ExternalScores[i])]
  /\ feedback_events = <<>>
  /\ topics = [t \in TopicIds |-> 0]
  /\ storyTopics = {<<i, t>> : i \in DOMAIN stories, t \in TopicIds} 
                     \cap {p \in StoryIds \X TopicIds : p[2] \in LinkedTopics(p[1])}
  /\ clock = 0
  /\ delivery = NoDelivery
  /\ faults = 0

StoreInit == \E n \in 1..MaxStories : StoreOf(n)

\* the store as the crawl and the trigger endpoint leave it
StoreIdle ==
  /\ stories = <<>>
  /\ feedback_events = <<>>
  /\ topics = [t \in TopicIds |-> 0]
  /\ storyTopics = {}
  /\ clock = 0
  /\ delivery = NoDelivery
  /\ faults = 0

\* the payloads the feedback endpoints hand to recordFeedbackEvent
Payloads ==
  {[storyId |-> id, action |-> k[1], confidence |-> k[2], source |-> k[3]] :
     id \in 1..(MaxStories + 1),
     k \in {<<"DISLIKE", "explicit", "pushover">>, <<"SAVE", "explicit", "dashboard">>,
            <<"IGNORED", "implicit", "system">>, <<"OPENED", "explicit", "pushover">>}}

\* include: { feedbackEvents: true }
EventsOf(events, id) == SelectSeq(events, LAMBDA e : e.storyId = id)

\* the awaited store operations of recordFeedbackEvent, in their order
FeedbackFaultPoints == <<"create", "findUnique", "update", "findMany", "updateMany">>

\* the store operations recordFeedbackEvent reaches for this payload that can
\* fail for a reason of the store
FeedbackOperations(payload, S, links) ==
  IF payload.storyId \notin DOMAIN S THEN {}
  ELSE {"create", "findUnique", "update"}
       \cup (IF TopicDelta(payload) # 0 THEN {"findMany"} ELSE {})
       \cup (IF TopicDelta(payload) # 0
                /\ \E p \in links : p[1] = payload.storyId
             THEN {"updateMany"} ELSE {})

Before(point, failAt) ==
  \/ failAt = "none"
  \/ \E i, j \in 1..Len(FeedbackFaultPoints) :
       /\ FeedbackFaultPoints[i] = point
       /\ FeedbackFaultPoints[j] = failAt
       /\ i < j

\* lines 225-275; failAt names the store operation that rejects, "none" when
\* all resolve; the foreign key of feedback_events rejects the creation of an
\* event of an unknown story
RecordFeedback(payload, failAt) ==
  LET known == payload.storyId \in DOMAIN stories
      created == Before("create", failAt) /\ known
      events == IF created
                THEN Append(feedback_events,
                            [storyId |-> payload.storyId, action |-> payload.action,
                             confidence |-> payload.confidence,
                             source |-> payload.source, createdAt |-> clock])
                ELSE feedback_events
      story == stories[payload.storyId]
      computation ==
        computeRelevanceScore(story, EventsOf(events, payload.storyId), clock)
      updated == created /\ Before("update", failAt)
      propagated == updated /\ Before("updateMany", failAt) /\ TopicDelta(payload) # 0
  IN /\ feedback_events' = events
     /\ stories' = IF updated
                   THEN [stories EXCEPT ![payload.storyId] =
                           [@ EXCEPT !.relevanceScore = computation.relevanceScore,
                                     !.suppressedUntil = computation.suppressedUntil]]
                   ELSE stories
     /\ topics' = IF propagated
                  THEN [t \in TopicIds |->
                          IF <<payload.storyId, t>> \in storyTopics
                          THEN topics[t] + TopicDelta(payload) ELSE topics[t]]
                  ELSE topics
     /\ UNCHANGED <<storyTopics, clock, delivery>>

\* recordFeedbackEvent with every store operation resolving; the store takes
\* most events feedback events
RecordFeedbackOk(most) ==
  /\ Len(feedback_events) < most
  /\ \E payload \in Payloads : RecordFeedback(payload, "none")
  /\ UNCHANGED <<faults, crawlVars, serverVars>>

\* recordFeedbackEvent with a store operation rejecting: caught at line 271
RecordFeedbackFail(most) ==
  /\ Len(feedback_events) < most
  /\ faults < MaxFaults
  /\ faults' = faults + 1
  /\ \E payload \in Payloads :
       \E failAt \in FeedbackOperations(payload, stories, storyTopics) :
         RecordFeedback(payload, failAt)
  /\ UNCHANGED <<crawlVars, serverVars>>

\* hours pass
StoreTick ==
  /\ clock < MaxTicks * DECAY_HALF_LIFE_HOURS
  /\ clock' = clock + DECAY_HALF_LIFE_HOURS
  /\ UNCHANGED <<stories, feedback_events, topics, storyTopics, delivery,
                 faults, crawlVars, serverVars>>

(***************************************************************************)
(* Selection and delivery (getUnsentRelevantStories, refreshRelevance,     *)
(* deliverNotifications).                                                  *)
(***************************************************************************)
\* unsentStories.slice(0, 5)
DeliveryCap == 5

\* as topStories, without the slice
topStoriesAll(unsentStories) == unsentStories

\* line 120 of insightTracker.ts
topStories(unsentStories) ==
  SubSeq(unsentStories, 1, Min2(DeliveryCap, Len(unsentStories)))

\* as Eligible, without the condition on notificationSent
EligibleAlsoSent(story, at) ==
  \/ story.suppressedUntil = NullDate
  \/ story.suppressedUntil <= at

\* where: notificationSent false, suppressedUntil null or lte now
Eligible(story, at) ==
  /\ ~story.notificationSent
  /\ (story.suppressedUntil = NullDate \/ story.suppressedUntil <= at)

\* orderBy relevanceScore desc, score desc (NULL last); rows that tie come
\* in the order of their ids
DbBefore(a, b) ==
  \/ a.relevanceScore > b.relevanceScore
  \/ a.relevanceScore = b.relevanceScore /\ a.score > b.score
  \/ a.relevanceScore = b.relevanceScore /\ a.score = b.score /\ a.id < b.id

\* x || 0 of a score column
OrZero(score) == IF score = NullScore THEN 0 ELSE score

\* lines 101-106 of storage.ts: the comparator of refreshed.sort
CompareRefreshed(a, b) ==
  IF b.relevanceScore # a.relevanceScore
  THEN b.relevanceScore - a.relevanceScore
  ELSE OrZero(b.score) - OrZero(a.score)

InsertDb(sorted, x) ==
  LET k == Cardinality({i \in 1..Len(sorted) : DbBefore(sorted[i], x)})
  IN SubSeq(sorted, 1, k) \o <<x>> \o SubSeq(sorted, k + 1, Len(sorted))

\* Array.prototype.sort is stable: x stays behind the rows it ties with
InsertRefreshed(sorted, x) ==
  LET k == Cardinality({i \in 1..Len(sorted) : CompareRefreshed(sorted[i], x) <= 0})
  IN SubSeq(sorted, 1, k) \o <<x>> \o SubSeq(sorted, k + 1, Len(sorted))

RECURSIVE SortRefreshed(_)
SortRefreshed(rows) ==
  IF rows = <<>> THEN <<>>
  ELSE InsertRefreshed(SortRefreshed(SubSeq(rows, 1, Len(rows) - 1)), rows[Len(rows)])

StoryRow(S, events, id) ==
  [id |-> id, score |-> S[id].score, url |-> S[id].url,
   relevanceScore |-> S[id].relevanceScore,
   suppressedUntil |-> S[id].suppressedUntil,
   feedbackEvents |-> EventsOf(events, id)]

\* lines 87-94 of storage.ts: the rows of the ids up to k
RECURSIVE findManyUnsent(_, _, _, _)
findManyUnsent(S, events, at, k) ==
  IF k = 0 THEN <<>>
  ELSE IF k \in DOMAIN S /\ Eligible(S[k], at)
       THEN InsertDb(findManyUnsent(S, events, at, k - 1), StoryRow(S, events, k))
       ELSE findManyUnsent(S, events, at, k - 1)

\* lines 61-64 of storage.ts: the refresh writes to the store
withoutRelations(row) ==
  [id |-> row.id, score |-> row.score, url |-> row.url,
   relevanceScore |-> row.relevanceScore, suppressedUntil |-> row.suppressedUntil]

RefreshWrites(row, computation) ==
  \/ computation.relevanceScore # row.relevanceScore
  \/ computation.suppressedUntil # row.suppressedUntil

\* deliverNotifications is called; line 87 of storage.ts resolves
DeliverStart ==
  /\ delivery.pc \in {"idle", "done", "rejected"}
  /\ delivery.runs < MaxPasses
  /\ LET rows == findManyUnsent(stories, feedback_events, clock, MaxStories)
     IN delivery' = [pc |-> IF rows = <<>> THEN "done" ELSE "refresh",
                     rows |-> rows, at |-> 1, sent |-> <<>>,
                     runs |-> delivery.runs + 1, undelivered |-> {},
                     handed |-> delivery.handed]
  /\ UNCHANGED <<stories, feedback_events, topics, storyTopics, clock,
                 faults, crawlVars, serverVars>>

\* line 87 of storage.ts rejects, and with it deliverNotifications
DeliverStartFail ==
  /\ delivery.pc \in {"idle", "done", "rejected"}
  /\ delivery.runs < MaxPasses
  /\ faults < MaxFaults
  /\ faults' = faults + 1
  /\ delivery' = [pc |-> "rejected", rows |-> <<>>, at |-> 1, sent |-> <<>>,
                  runs |-> delivery.runs + 1, undelivered |-> {},
                  handed |-> delivery.handed]
  /\ UNCHANGED <<stories, feedback_events, topics, storyTopics, clock,
                 crawlVars, serverVars>>

\* the rows after the refresh of the row at delivery.at: sorted at line 101
\* when it was the last one
AfterRefresh(rows, at, row) ==
  LET next == [rows EXCEPT ![at] = withoutRelations(row)]
  IN [delivery EXCEPT
        !.rows = IF at = Len(rows) THEN SortRefreshed(next) ELSE next,
        !.at = IF at = Len(rows) THEN 1 ELSE at + 1,
        !.pc = IF at = Len(rows) THEN "deliver" ELSE "refresh"]

\* lines 55-83 and 97-100 of storage.ts: one turn of the loop
RefreshRelevance ==
  /\ delivery.pc = "refresh"
  /\ LET row == delivery.rows[delivery.at]
         computation == computeRelevanceScore(row, row.feedbackEvents, clock)
         updated == [row EXCEPT !.relevanceScore = computation.relevanceScore,
                                !.suppressedUntil = computation.suppressedUntil]
     IN IF RefreshWrites(row, computation)
        THEN /\ stories' = [stories EXCEPT ![row.id] =
                              [@ EXCEPT !.relevanceScore = computation.relevanceScore,
                                        !.suppressedUntil = computation.suppressedUntil]]
             /\ delivery' = AfterRefresh(delivery.rows, delivery.at, updated)
        ELSE /\ stories' = stories
             /\ delivery' = AfterRefresh(delivery.rows, delivery.at, row)
  /\ UNCHANGED <<feedback_events, topics, storyTopics, clock, faults,
                 crawlVars, serverVars>>

\* lines 71-77 and 98 of storage.ts: prisma.story.update rejects; neither
\* refreshRelevance nor the loop has a catch clause
RefreshFailure(d) == [d EXCEPT !.pc = "rejected"]

RefreshRelevanceFail ==
  /\ delivery.pc = "refresh"
  /\ faults < MaxFaults
  /\ LET row == delivery.rows[delivery.at]
     IN RefreshWrites(row, computeRelevanceScore(row, row.feedbackEvents, clock))
  /\ faults' = faults + 1
  /\ delivery' = RefreshFailure(delivery)
  /\ UNCHANGED <<stories, feedback_events, topics, storyTopics, clock,
                 crawlVars, serverVars>>

\* as sendNotificationRejects, without the catch clause of lines 45-47
sendNotificationRejectsOnFailure(ok) == ~ok

\* notifier.ts lines 20-48: a failure of the sink is caught and logged, and
\* missing credentials skip the call; the promise resolves
sendNotificationRejects(ok) == FALSE

\* storage.ts lines 110-116
markStoryAsSent(S, id, at) ==
  [S EXCEPT ![id].notificationSent = TRUE, ![id].lastNotifiedAt = at]

\* line 127 of insightTracker.ts: the story is handed to the sink, which
\* takes it (ok) or fails
HandToSink(d, id, ok) ==
  [d EXCEPT !.sent = Append(@, id),
            !.handed = Append(@, id),
            !.undelivered = IF ok THEN @ ELSE @ \cup {id}]

\* lines 123-130 of insightTracker.ts: one turn of the loop, the story is
\* sent and marked
DeliverStory ==
  /\ delivery.pc = "deliver"
  /\ \E ok \in BOOLEAN :
       LET id == delivery.rows[delivery.at].id
           handed == HandToSink(delivery, id, ok)
       IN IF sendNotificationRejects(ok)
          THEN /\ stories' = stories
               /\ delivery' = [handed EXCEPT !.pc = "rejected"]
          ELSE /\ stories' = markStoryAsSent(stories, id, clock)
               /\ delivery' = [handed EXCEPT
                                 !.at = @ + 1,
                                 !.pc = IF delivery.at >= Len(topStories(delivery.rows))
                                        THEN "done" ELSE "deliver"]
  /\ UNCHANGED <<feedback_events, topics, storyTopics, clock, faults,
                 crawlVars, serverVars>>

\* the story is sent and markStoryAsSent rejects
DeliverStoryFail ==
  /\ delivery.pc = "deliver"
  /\ faults < MaxFaults
  /\ faults' = faults + 1
  /\ \E ok \in BOOLEAN :
       delivery' = [HandToSink(delivery, delivery.rows[delivery.at].id, ok)
                      EXCEPT !.pc = "rejected"]
  /\ UNCHANGED <<stories, feedback_events, topics, storyTopics, clock,
                 crawlVars, serverVars>>

(***************************************************************************)
(* A pass, candidate by candidate (fetchAndFilterStories, processCandidates,*)
(* processCandidate, runHackerNewsStructured of insightTracker.ts) and the *)
(* promise the trigger endpoint is left with.  Neither the functions of a  *)
(* pass nor the trigger endpoint has a catch clause: a rejected await       *)
(* rejects the pass, .finally() runs its callback and returns a promise     *)
(* that is rejected with the same reason and has no handler.               *)
(***************************************************************************)
MAX_HN_PAGES == 6

HACKERNEWS_SOURCE_ID == "hackernews"

\* sourceRegistry.ts lines 316-361: the optional sources, then the three
\* sources that are always registered
Registry(extra) ==
  [i \in 1..extra |-> "github-blog"]
    \o <<"hackernoon", HACKERNEWS_SOURCE_ID, "fallback-browse">>

\* lines 138 and 146: the sources with a structured ingestor
Structured == {"github-blog", "hackernoon", HACKERNEWS_SOURCE_ID}

CandidateIds == 1..MaxCandidateIds

\* the candidates one call of an ingestor or of the crawl returns, by id
Queues ==
  UNION {[1..n -> CandidateIds] : n \in 0..MaxQueue}

\* lines 137-168: the loop over the registry reaches the source at index at;
\* the fallback source without seeds is skipped (lines 149-152), and after
\* the last source deliverNotifications is called (line 170)
RECURSIVE EnterSource(_, _)
EnterSource(g, at) ==
  IF at > Len(g.registry)
  THEN [g EXCEPT !.pc = "deliver", !.at = at, !.queue = <<>>]
  ELSE IF g.registry[at] \notin Structured /\ g.seeds = 0
       THEN EnterSource(g, at + 1)
       ELSE [g EXCEPT !.pc = "source", !.at = at, !.page = 1, !.seed = 1,
                      !.relevantStoriesFound = 0, !.queue = <<>>]

\* processCandidates has returned: the loop of lines 86-105 for Hacker News,
\* the loop over the seeds of lines 154-164, or the next source
AfterCandidates(g) ==
  LET source == g.registry[g.at]
  IN IF source = HACKERNEWS_SOURCE_ID
     THEN IF g.relevantStoriesFound = 0 /\ g.page + 1 <= MAX_HN_PAGES
          THEN [g EXCEPT !.pc = "source", !.page = g.page + 1, !.queue = <<>>]
          ELSE EnterSource(g, g.at + 1)
     ELSE IF source \notin Structured /\ g.seed < g.seeds
          THEN [g EXCEPT !.pc = "source", !.seed = g.seed + 1, !.queue = <<>>]
          ELSE EnterSource(g, g.at + 1)

\* an ingestor or the crawl has returned the candidates: line 91
\* breaks the loop of Hacker News on an empty page
AfterIngest(g, scrapedStories) ==
  IF scrapedStories # <<>>
  THEN [g EXCEPT !.pc = "candidates", !.queue = scrapedStories]
  ELSE IF g.registry[g.at] = HACKERNEWS_SOURCE_ID THEN EnterSource(g, g.at + 1)
  ELSE AfterCandidates(g)

\* a rejected await inside the pass
PassRejects(g, error) == [g EXCEPT !.pc = "rejected", !.error = error]

\* feedbackServer.ts lines 214-232 and the pass up to its first await
TriggerPass ==
  /\ triggers < MaxTriggers
  /\ TriggerRejected(isFetchRunning) \/ ingestion.started < MaxPasses
  /\ triggers' = triggers + 1
  /\ IF TriggerRejected(isFetchRunning)
     THEN /\ responses' = Append(responses, [code |-> 429, status |-> "busy"])
          /\ UNCHANGED <<isFetchRunning, ingestion>>
     ELSE /\ isFetchRunning' = TRUE
          /\ \E extra \in 0..MaxExtraSources, seeds \in 0..MaxSeeds :
               ingestion' =
                 EnterSource([NoIngestion EXCEPT
                                !.registry = Registry(extra), !.seeds = seeds,
                                !.run = delivery.runs,
                                !.started = ingestion.started + 1,
                                !.unhandled = ingestion.unhandled], 1)
          /\ responses' = Append(responses, [code |-> 200, status |-> "ok"])
  /\ UNCHANGED <<passes, crawlVars, storeVars>>

\* lines 88, 143, 155: the ingestor of the source, or the crawl from the
\* seed, returns its candidates
IngestSource ==
  /\ ingestion.pc = "source"
  /\ \E scrapedStories \in Queues :
       ingestion' = AfterIngest(ingestion, scrapedStories)
  /\ UNCHANGED <<isFetchRunning, passes, triggers, responses, crawlVars,
                 storeVars>>

\* lines 88, 143: a structured ingestor rejects (scrapeTopStories rethrows,
\* the scrapers launch the browser outside their try); the crawl of the
\* fallback source catches its own failures and returns
IngestSourceFail ==
  /\ ingestion.pc = "source"
  /\ ingestion.registry[ingestion.at] \in Structured
  /\ ingestion' = PassRejects(ingestion, "IngestError")
  /\ UNCHANGED <<isFetchRunning, passes, triggers, responses, crawlVars,
                 storeVars>>

\* the ways processCandidate ends for a candidate that is not stored yet:
\* lines 37-40 (Hacker News only), 44-47, 52-65, 67-68
CandidateOutcomes(source) ==
  {"no-content", "relevant", "ignore"}
    \cup (IF source = HACKERNEWS_SOURCE_ID THEN {"below-threshold"} ELSE {})

\* lines 73-78: the candidate at the head of the queue has been processed;
\* of relevantStoriesFound only whether it is 0 is read (line 86)
NextCandidate(g, stored, asked) ==
  LET counted == [g EXCEPT !.relevantStoriesFound = IF stored THEN 1 ELSE @,
                           !.candidate = Head(g.queue),
                           !.asked = asked,
                           !.queue = Tail(g.queue)]
  IN IF counted.queue = <<>>
     THEN AfterCandidates([counted EXCEPT !.candidate = 0, !.asked = FALSE])
     ELSE counted

\* lines 55-63 and saveStory: toScrapedStory reads a missing score as 0
SavedStory(id) == NewStory(LinkL, OrZero(ExternalScores[id]))

\* as saveStory, writing over a stored story
saveStoryUpsert(S, id, story) ==
  [i \in DOMAIN S \cup {id} |-> IF i = id THEN story ELSE S[i]]

\* storage.ts lines 25-48: create, and P2002 (the id is stored) is ignored
saveStory(S, id, story) ==
  IF id \in DOMAIN S THEN S
  ELSE [i \in DOMAIN S \cup {id} |-> IF i = id THEN story ELSE S[i]]

\* lines 42-50: the outcomes in which checkRelevance was called
OracleAsked == {"relevant", "ignore"}

\* lines 30-69 and 73-78: processCandidate returns
ProcessCandidate ==
  /\ ingestion.pc = "candidates"
  /\ LET id == Head(ingestion.queue)
     IN IF id \in DOMAIN stories
        THEN /\ ingestion' = NextCandidate(ingestion, FALSE, FALSE)
             /\ stories' = stories
        ELSE \E result \in CandidateOutcomes(ingestion.registry[ingestion.at]) :
               /\ ingestion' = NextCandidate(ingestion, result = "relevant",
                                             result \in OracleAsked)
               /\ stories' = IF result = "relevant"
                             THEN saveStory(stories, id, SavedStory(id))
                             ELSE stories
  /\ UNCHANGED <<feedback_events, topics, storyTopics, clock, delivery, faults,
                 isFetchRunning, passes, triggers, responses, crawlVars>>

\* line 50: checkRelevance logs its error and throws it again
\* (relevanceAgent.ts lines 141-146)
ProcessCandidateOracleFail ==
  /\ ingestion.pc = "candidates"
  /\ Head(ingestion.queue) \notin DOMAIN stories
  /\ ingestion' = [PassRejects(ingestion, "RelevanceOracleError") EXCEPT
                     !.candidate = Head(ingestion.queue), !.asked = TRUE]
  /\ UNCHANGED <<isFetchRunning, passes, triggers, responses, crawlVars,
                 storeVars>>

\* lines 31 and 63: the store rejects hasStoryBeenProcessed or saveStory
ProcessCandidateStoreFail ==
  /\ ingestion.pc = "candidates"
  /\ faults < MaxFaults
  /\ faults' = faults + 1
  /\ \E asked \in (IF Head(ingestion.queue) \in DOMAIN stories
                   THEN {FALSE} ELSE BOOLEAN) :
       ingestion' = [PassRejects(ingestion, "StoreError") EXCEPT
                       !.candidate = Head(ingestion.queue), !.asked = asked]
  /\ UNCHANGED <<stories, feedback_events, topics, storyTopics, clock, delivery,
                 isFetchRunning, passes, triggers, responses, crawlVars>>

\* line 170 is reached and deliverNotifications has not been called yet
AtDelivery == ingestion.pc = "deliver" /\ delivery.runs = ingestion.run

\* lines 170-171: deliverNotifications has returned or rejected
PassSettles ==
  /\ ingestion.pc = "deliver"
  /\ delivery.runs = ingestion.run + 1
  /\ delivery.pc \in {"done", "rejected"}
  /\ ingestion' = IF delivery.pc = "done"
                  THEN [ingestion EXCEPT !.pc = "resolved"]
                  ELSE PassRejects(ingestion, "StoreError")
  /\ UNCHANGED <<isFetchRunning, passes, triggers, responses, crawlVars,
                 storeVars>>

\* feedbackServer.ts lines 225-227: nothing handles the promise .finally()
\* returns, which is rejected when the pass is
Unhandled(settled) == settled = "rejected"

\* feedbackServer.ts lines 225-227: the callback of .finally()
FinallyCallback ==
  /\ ingestion.pc \in {"resolved", "rejected"}
  /\ isFetchRunning' = FlagAfterPass(isFetchRunning, ingestion.pc)
  /\ ingestion' = [ingestion EXCEPT
                     !.pc = IF ingestion.pc = "resolved" THEN "ended" ELSE "failed",
                     !.unhandled = @ \/ Unhandled(ingestion.pc)]
  /\ UNCHANGED <<passes, triggers, responses, crawlVars, storeVars>>

PassNext ==
  \/ TriggerPass
  \/ IngestSource
  \/ IngestSourceFail
  \/ ProcessCandidate
  \/ ProcessCandidateOracleFail
  \/ ProcessCandidateStoreFail
  \/ AtDelivery /\ DeliverStart
  \/ AtDelivery /\ DeliverStartFail
  \/ RefreshRelevance
  \/ RefreshRelevanceFail
  \/ DeliverStory
  \/ DeliverStoryFail
  \/ PassSettles
  \/ FinallyCallback
  \/ RecordFeedbackOk(MaxPassEvents)

\* the feedback endpoints alone, over a store that does not fail
FeedbackNext ==
  \/ RecordFeedbackOk(MaxEvents)
  \/ StoreTick

StoreNext ==
  \/ RecordFeedbackOk(MaxLoad \div Cardinality(DOMAIN stories))
  \/ RecordFeedbackFail(MaxLoad \div Cardinality(DOMAIN stories))
  \/ StoreTick
  \/ DeliverStart
  \/ DeliverStartFail
  \/ RefreshRelevance
  \/ RefreshRelevanceFail
  \/ DeliverStory
  \/ DeliverStoryFail

Init == CrawlInit /\ ServerInit /\ StoreIdle

Next ==
  \/ BrowseStart
  \/ LaunchOk
  \/ LaunchFail
  \/ LoopIteration
  \/ NewPageOk
  \/ NewPageFail
  \/ FetchOk
  \/ FetchFail
  \/ Decide
  \/ ExtractOk
  \/ ExtractFail
  \/ PageCloseOk
  \/ PageCloseFail
  \/ BrowserClose
  \/ Tick

Spec == Init /\ [][Next]_vars

\* the options of the case of the spec
SpecCase ==
  [sourceId |-> "fallback-browse", seedUrl |-> SeedS,
   domainAllowlist |-> {ExampleCom}, maxPages |-> 3, maxClicks |-> 2,
   maxDepth |-> 2, maxCandidates |-> 1, timeoutMs |-> 1]

ServerSpecInit == CrawlInit /\ options = SpecCase /\ ServerInit /\ StoreIdle

ServerNext ==
  \/ TriggerFetch
  \/ \E k \in 1..MaxTriggers : PassIngest(k)
  \/ \E k \in 1..MaxTriggers : PassIngestFail(k)
  \/ \E k \in 1..MaxTriggers : PassDeliver(k)
  \/ \E k \in 1..MaxTriggers : PassDeliverFail(k)
  \/ \E k \in 1..MaxTriggers : PassFinally(k)

SpecServer == ServerSpecInit /\ [][ServerNext]_vars

\* the callback of a settled promise is queued as a microtask and runs
SpecServerLive ==
  SpecServer /\ \A k \in 1..MaxTriggers : WF_vars(PassFinally(k))

StoreSpecInit == CrawlInit /\ options = SpecCase /\ ServerInit /\ StoreInit

SpecStore == StoreSpecInit /\ [][StoreNext]_vars

FeedbackSpecInit == CrawlInit /\ options = SpecCase /\ ServerInit /\ StoreOf(1)

SpecFeedback == FeedbackSpecInit /\ [][FeedbackNext]_vars

SpecPass == ServerSpecInit /\ [][PassNext]_vars


(***************************************************************************)
(* Properties of a crawl run.                                              *)
(***************************************************************************)
Last(seq) == seq[Len(seq)]

Logged(entry) == \E i \in 1..Len(log) : log[i] = entry

\* host is domain, or a name below domain
HostWithin(host, domain) ==
  \/ host = domain
  \/ \E k \in 2..Len(host) :
       host[k] = "." /\ SubSeq(host, k + 1, Len(host)) = domain

\* C1 as claimed: the host of every url handed to page.goto is itself an entry
\* of the allowlist in force.
C1_HostIsAllowlistEntry ==
  \A i \in 1..Len(fetched) :
    UrlParses(fetched[i]) /\ UrlHostname[fetched[i]] \in allowlist

\* C1 as amended: the host of every url handed to page.goto is an entry of the
\* allowlist in force or a subdomain of an entry, whatever the seed and
\* whatever link the oracle chooses.
C1_HostWithinAllowlist ==
  \A i \in 1..Len(fetched) :
    /\ UrlParses(fetched[i])
    /\ \E domain \in allowlist : HostWithin(UrlHostname[fetched[i]], domain)

\* a subdomain page was fetched after a click, and on it a click to a host
\* outside the allowlist was refused
C1_Witness ==
  /\ options.seedUrl = SeedS
  /\ allowlist = {ExampleCom}
  /\ fetched = <<SeedS, SubdomainUrl>>
  /\ pc = "pageClose"
  /\ outcome.action = "click"
  /\ Last(log) = <<"blocked">>

\* C2: pagesVisited <= maxPages, clicks <= maxClicks, and no queued page and
\* no page being visited is deeper than maxDepth.
C2_BudgetsRespected ==
  /\ pagesVisited <= options.maxPages
  /\ clicks <= options.maxClicks
  /\ cur.depth <= options.maxDepth
  /\ \A i \in 1..Len(queue) : queue[i].depth <= options.maxDepth

\* every budget is exhausted and the oracle asks for one more click
C2_Witness ==
  /\ pagesVisited = options.maxPages
  /\ clicks = options.maxClicks
  /\ cur.depth = options.maxDepth
  /\ pagesVisited = DefaultMaxPages
  /\ pc = "pageClose"
  /\ decision.action = "click"
  /\ Last(log) = <<"max-clicks">>

\* C3 as claimed: the run has ended before more than timeoutMs has elapsed.
C3_EndsWithinTimeout == pc = "done" => now <= options.timeoutMs

\* C3 as amended: elapsed time is checked at the head of every iteration; once
\* more than timeoutMs has elapsed no further page is taken from the queue and
\* the loop is left.
C3_NoIterationAfterTimeout ==
  [][/\ pagesVisited' > pagesVisited => now <= options.timeoutMs
     /\ (pc = "loop" /\ queue # <<>> /\ now > options.timeoutMs)
          => (pc' = "finally" /\ queue' = queue /\ fetched' = fetched)]_vars

\* the timeout stopped a run that had a page left in its queue
C3_Witness ==
  /\ pc = "finally"
  /\ queue # <<>>
  /\ pagesVisited < options.maxPages
  /\ now > options.timeoutMs
  /\ Last(log) = <<"timeout">>

\* C4: no url is handed to page.goto twice in one run.
C4_NoUrlFetchedTwice ==
  \A i, j \in 1..Len(fetched) : i # j => fetched[i] # fetched[j]

\* the oracle chose a link to a page already visited, on the second page
C4_Witness ==
  /\ Len(fetched) = 2
  /\ pc = "pageClose"
  /\ decision.action = "click"
  /\ Last(log) = <<"duplicate-click">>

\* C5: the run never rejects; a page whose fetch or extraction failed is
\* skipped with the loop going on, and the run returns the candidates it has.
C5_NeverThrows ==
  /\ returned.status # "threw"
  /\ (pc = "pageClose" /\ Last(log) = <<"failed-to-browse">>) => exit = "continue"
  /\ (pc \in {"pageClose", "loop"} /\ decision = NoDecision /\ fetched # <<>>)
       => exit = "continue"
  /\ pc = "done" => returned = [status |-> "returned", value |-> candidates]

\* the second page failed to load and the run returned
C5_Witness ==
  /\ pc = "done"
  /\ Len(fetched) = 2
  /\ decision = NoDecision
  /\ Logged(<<"failed-to-browse">>)
  /\ returned.status = "returned"

\* C6: at most one page is open, none is open when the next one is asked
\* for, and a run that has ended has left no browser and no page open.
C6_ResourcesReleased ==
  /\ openPages <= 1
  /\ pc = "newPage" => openPages = 0
  /\ pc = "done" => (browser # "open" /\ openPages = 0)

\* the run ended on an internal error with the browser launched
C6_Witness ==
  /\ pc = "done"
  /\ browser = "closed"
  /\ exit = "error"
  /\ Len(fetched) = 2


\* an oracle outcome that is no well-formed decision: the call failed or timed
\* out, the content is no JSON, the value is no object, or its action is none
\* of click, extract and stop
Malformed(o) ==
  \/ o.kind \in FailureKinds \cup {"nonjson", "scalar"}
  \/ o.kind \in {"array", "object"} /\ o.action \notin allowedActions

\* C7: every decision acted on carries one of the three actions; a malformed
\* outcome is a stop: the loop is left at once, no page is fetched and no
\* candidate is added after it, and the run does not reject.
C7_MalformedIsStop ==
  /\ [](/\ decision.action \in allowedActions \cup {"none"}
        /\ outcome # NoOutcome => decision.action \in allowedActions
        /\ Malformed(outcome) =>
             /\ decision.action = "stop"
             /\ pc \in {"pageClose", "finally", "done"}
             /\ exit \in {"break", "error"}
             /\ returned.status # "threw")
  /\ [][Malformed(outcome') =>
          /\ candidates' = candidates
          /\ fetched' = fetched
          /\ pagesVisited' = pagesVisited
          /\ queue' = queue]_vars

\* the second page got an answer that is no JSON, after a candidate-free first
\* page, and the run returned
C7_Witness ==
  /\ pc = "done"
  /\ outcome.kind = "nonjson"
  /\ Len(fetched) = 2
  /\ Logged(<<"decision", "stop", JsNull>>)
  /\ returned = [status |-> "returned", value |-> <<>>]

\* a click whose target is missing, null, no string, or no link id of the
\* snapshot
InvalidClick(o, snap) ==
  /\ o.kind = "object"
  /\ o.action = "click"
  /\ \/ o.target \in {JsUndefined, JsNull, JsNumber}
     \/ \A i \in 1..Len(snap.links) : snap.links[i].id # o.target

StopAnswer(o) == o.kind = "object" /\ o.action = "stop"

\* the run has nothing left to visit: what a stop leaves behind
Quiescent == queue = <<>> /\ pc \in {"pageClose", "loop", "finally", "done"}

\* C8: the step that acts on a click with an invalid target leaves the run
\* where the step that acts on a stop leaves it: with nothing fetched, counted
\* or added by the step and nothing left to visit; and from there the run
\* fetches no further page, adds no candidate and returns the candidates it has.
C8_InvalidClickIsStop ==
  /\ [][(pc = "decide" /\ pc' # "decide"
           /\ (InvalidClick(outcome', snapshot) \/ StopAnswer(outcome'))) =>
          /\ Quiescent'
          /\ fetched' = fetched
          /\ pagesVisited' = pagesVisited
          /\ candidates' = candidates
          /\ clicks' = clicks]_vars
  /\ [][Quiescent =>
          /\ Quiescent'
          /\ fetched' = fetched
          /\ pagesVisited' = pagesVisited
          /\ candidates' = candidates
          /\ clicks' = clicks]_vars
  /\ [](pc = "done" => returned = [status |-> "returned", value |-> candidates])

\* a click on a number, with clicks to spare, on the second page: the run
\* ended after it
C8_Witness ==
  /\ pc = "done"
  /\ outcome.kind = "object"
  /\ outcome.action = "click"
  /\ outcome.target = JsNumber
  /\ Logged(<<"invalid-target">>)
  /\ clicks < options.maxClicks
  /\ pagesVisited < options.maxPages
  /\ Len(fetched) = 2
  /\ returned.status = "returned"

DecisionsLogged == SelectSeq(log, LAMBDA e : e[1] = "decision")

\* C9: a run in which nothing failed and the oracle answered click for the
\* first page and extract for the second fetched the seed and then the link
\* clicked, and returned one candidate: the second page, with the id
\* url:<first 12 hex digits of the SHA-256 of its url>; the click put that
\* link, one level deeper, in the queue.
C9_ClickThenExtract ==
  /\ []((/\ pc = "done"
      /\ Len(DecisionsLogged) = 2
      /\ DecisionsLogged[1][2] = "click"
      /\ DecisionsLogged[2][2] = "extract"
      /\ ~Logged(<<"failed-to-browse">>))
     => /\ Len(fetched) = 2
        /\ fetched[1] = options.seedUrl
        /\ isDomainAllowed(fetched[2], allowlist)
        /\ returned.status = "returned"
        /\ Len(returned.value) = 1
        /\ returned.value[1].url = fetched[2]
        /\ returned.value[1].id = [prefix |-> "url", hash |-> Sha256Hex12[fetched[2]]]
        /\ (fetched[2] = LinkL => returned.value[1].id.hash = "b2117d83f8db"))
  /\ [][(pc = "decide" /\ decision'.action = "click" /\ queue' # <<>>)
        => /\ FindLink(snapshot.links, decision'.target) # <<>>
           /\ queue' = <<[url |-> FindLink(snapshot.links, decision'.target)[1].href,
                          depth |-> cur.depth + 1]>>]_vars

\* the case of the spec: seed https://example.com/blog, allowlist
\* [example.com], maxPages=3, maxClicks=2, maxDepth=2, maxCandidates=1
C9_Witness ==
  /\ pc = "done"
  /\ options.seedUrl = SeedS
  /\ options.domainAllowlist = {ExampleCom}
  /\ options.maxPages = 3
  /\ options.maxClicks = 2
  /\ options.maxDepth = 2
  /\ options.maxCandidates = 1
  /\ DecisionsLogged = <<<<"decision", "click", LinkId(0)>>,
                         <<"decision", "extract", JsNull>>>>
  /\ fetched = <<SeedS, LinkL>>
  /\ returned = [status |-> "returned",
                 value |-> <<[id |-> [prefix |-> "url", hash |-> "b2117d83f8db"],
                              url |-> LinkL, sourceId |-> options.sourceId]>>]


(***************************************************************************)
(* Properties of the trigger endpoint.                                     *)
(***************************************************************************)
PassesInFlight == {k \in 1..MaxTriggers : InFlight(k)}

\* C10: at most one pass started by a trigger is in flight; a trigger handled
\* while a pass is in flight is answered 429 busy in the same step and starts
\* no pass, and a pass starts only in the step that handles a trigger.
C10_SinglePassInFlight ==
  /\ [](Cardinality(PassesInFlight) <= 1)
  /\ [][(PassesInFlight # {} /\ triggers' = triggers + 1) =>
          /\ Last(responses') = [code |-> 429, status |-> "busy"]
          /\ passes' = passes]_vars
  /\ [][\A k \in 1..MaxTriggers :
          (passes[k].pc = "none" /\ passes'[k].pc # "none") =>
             (triggers' = k /\ triggers = k - 1 /\ PassesInFlight = {})]_vars

\* a trigger was rejected while the first pass was delivering, and nothing
\* but that pass is in flight
C10_Witness ==
  /\ passes[1].pc = "deliver"
  /\ responses = <<[code |-> 200, status |-> "ok"], [code |-> 429, status |-> "busy"]>>
  /\ passes[2] = NoPass
  /\ isFetchRunning



(***************************************************************************)
(* Properties of scores and suppression.                                   *)
(***************************************************************************)
\* recordFeedbackEvent has stored an event of the story and, no store
\* operation failing, the score it computed
RecordedFor(id) ==
  /\ Len(feedback_events') = Len(feedback_events) + 1
  /\ Last(feedback_events').storyId = id
  /\ faults' = faults

\* the refresh loop has refreshed the story
RefreshedFor(id) ==
  /\ delivery.pc = "refresh"
  /\ delivery' # delivery
  /\ delivery.rows[delivery.at].id = id
  /\ faults' = faults

Recomputed(id) == RecordedFor(id) \/ RefreshedFor(id)

\* the story as the recomputation read it: from the store, or the row the
\* refresh loop holds
AsRead(id) ==
  IF RecordedFor(id) THEN stories[id] ELSE delivery.rows[delivery.at]

\* what the recomputation yielded: what recordFeedbackEvent stored, or the
\* row refreshRelevance returned
Yielded(id) ==
  IF RecordedFor(id) THEN stories'[id]
  ELSE delivery'.rows[CHOOSE i \in 1..Len(delivery'.rows) : delivery'.rows[i].id = id]

\* the score of one fold of the history of the story, from
\* INITIAL_RELEVANCE_SCORE, at the time at
ReplayScore(story, history, at) ==
  computeRelevanceScore([story EXCEPT !.relevanceScore = INITIAL_RELEVANCE_SCORE],
                        history, at).relevanceScore

\* C11 as claimed: whenever recordFeedback or a refresh recomputes the score of
\* a story, the score it stores is the score of one fold of the full history
\* of the story from INITIAL_RELEVANCE_SCORE at that instant.
C11_ReplayInvariance ==
  [][\A id \in DOMAIN stories :
       Recomputed(id) =>
         Yielded(id).relevanceScore =
           ReplayScore(stories[id], EventsOf(feedback_events', id), clock)]_vars

\* clamp(round(|score| / 100) * 2h, 6h, 48h)
ClaimedSuppressionHours(score) ==
  LET hours == ((2 * Abs(score) + 100) \div 200) * 2
  IN IF hours < 6 THEN 6 ELSE IF hours > 48 THEN 48 ELSE hours

SuppressedAsClaimed(id) ==
  /\ stories'[id].suppressedUntil =
       clock + ClaimedSuppressionHours(Yielded(id).relevanceScore)
  /\ Yielded(id).suppressedUntil = stories'[id].suppressedUntil
  /\ stories'[id].suppressedUntil >= clock + 6
  /\ stories'[id].suppressedUntil <= clock + 48

\* C12 as claimed: a recomputation that yields a score of -150 or less sets
\* suppressedUntil to now + clamp(round(|score|/100) * 2h, 6h, 48h).
C12_SuppressedAtOrBelowThreshold ==
  [][\A id \in DOMAIN stories :
       (Recomputed(id) /\ Yielded(id).relevanceScore <= -150)
         => SuppressedAsClaimed(id)]_vars

\* C12 as amended: a recomputation that yields a score below -150 sets
\* suppressedUntil to now + clamp(round(|score|/100) * 2h, 6h, 48h), which is
\* between now+6h and now+48h; a score of exactly -150 does not suppress.
C12_SuppressedBelowThreshold ==
  [][\A id \in DOMAIN stories :
       /\ (Recomputed(id) /\ Yielded(id).relevanceScore < -150)
            => SuppressedAsClaimed(id)
       /\ (Recomputed(id) /\ Yielded(id).relevanceScore = -150)
            => Yielded(id).suppressedUntil = AsRead(id).suppressedUntil]_vars

\* three dislikes have brought the score to -540: suppressed for 10 hours
C12_Witness ==
  /\ Len(feedback_events) = 3
  /\ stories[1].relevanceScore = -540
  /\ stories[1].suppressedUntil = clock + 10

\* C13: a recomputation of a story whose suppressedUntil is in the future that
\* yields a score above 0 stores suppressedUntil = null, and the story, if
\* unsent, is eligible for delivery again.
C13_RecoveryClearsSuppression ==
  [][\A id \in DOMAIN stories :
       (/\ Recomputed(id)
        /\ AsRead(id).suppressedUntil # NullDate
        /\ AsRead(id).suppressedUntil > clock
        /\ Yielded(id).relevanceScore > 0)
         => /\ stories'[id].suppressedUntil = NullDate
            /\ ~stories'[id].notificationSent => Eligible(stories'[id], clock)]_vars

\* two dislikes suppressed the story and the third of three saves, in the
\* same hour, brought the score above 0
C13_Witness ==
  /\ Len(feedback_events) = 5
  /\ [i \in 1..5 |-> feedback_events[i].action]
       = <<"DISLIKE", "DISLIKE", "SAVE", "SAVE", "SAVE">>
  /\ clock = 0
  /\ stories[1].relevanceScore > 0
  /\ stories[1].suppressedUntil = NullDate


\* C14: a story without feedback events holds INITIAL_RELEVANCE_SCORE and
\* the suppressedUntil it was stored with, null, whatever refreshes and
\* deliveries have run.
C14_NoFeedbackKeepsInitialScore ==
  \A id \in DOMAIN stories :
    EventsOf(feedback_events, id) = <<>> =>
      /\ stories[id].relevanceScore = 150
      /\ stories[id].suppressedUntil = NullDate

\* a story without feedback was refreshed and delivered by the first pass,
\* hours later, and a second pass has run
C14_Witness ==
  /\ delivery.runs = 2
  /\ delivery.pc = "done"
  /\ clock > 0
  /\ \E id \in DOMAIN stories :
       /\ EventsOf(feedback_events, id) = <<>>
       /\ stories[id].notificationSent
  /\ \E id \in DOMAIN stories : EventsOf(feedback_events, id) # <<>>

(***************************************************************************)
(* Properties of the propagation to topics.                                *)
(***************************************************************************)
\* round(weight * 100 * topicScale(confidence)), the weight in hundredths
ClaimedTopicDelta(action, confidence) ==
  LET weight == IF confidence = "implicit" THEN IMPLICIT_WEIGHTS[action]
                ELSE EXPLICIT_WEIGHTS[action]
      tenths == IF confidence = "implicit" THEN 4 ELSE 7
  IN (2 * weight * tenths + 10) \div 20

\* C15: a recordFeedback that stores an event adds the full
\* round(weight * 100 * topicScale(confidence)) to every topic linked to the
\* story of the event and nothing to any other topic, which is no change at
\* all for a weight of zero; a step that stores no event changes no topic.
C15_FullDeltaToEachLinkedTopic ==
  /\ [][(\E id \in DOMAIN stories : RecordedFor(id)) =>
          LET event == Last(feedback_events')
              delta == ClaimedTopicDelta(event.action, event.confidence)
          IN \A t \in TopicIds :
               topics'[t] = topics[t]
                 + (IF <<event.storyId, t>> \in storyTopics THEN delta ELSE 0)]_vars
  /\ [][feedback_events' = feedback_events => topics' = topics]_vars

\* an explicit SAVE on the story linked to topics 1 and 2 gave 105 to each
C15_Witness ==
  /\ Len(feedback_events) = 1
  /\ feedback_events[1].action = "SAVE"
  /\ feedback_events[1].storyId = 1
  /\ {t \in TopicIds : <<1, t>> \in storyTopics} = {1, 2}
  /\ topics = <<105, 105, 0>>

(***************************************************************************)
(* Properties of selection and delivery.                                   *)
(***************************************************************************)
\* C16 as claimed: a story is handed to the sink only while its stored
\* suppressedUntil is null or not in the future.
C16_NoDeliveryWhileSuppressed ==
  [][Len(delivery'.sent) > Len(delivery.sent) =>
       LET id == Last(delivery'.sent)
       IN \/ stories[id].suppressedUntil = NullDate
          \/ stories[id].suppressedUntil <= clock]_vars

RowIds(rows) == {rows[i].id : i \in 1..Len(rows)}

\* a ranks no lower than b: by relevanceScore, ties by external score
RanksNoLower(a, b) ==
  \/ a.relevanceScore > b.relevanceScore
  \/ /\ a.relevanceScore = b.relevanceScore
     /\ OrZero(a.score) >= OrZero(b.score)

\* C17: the rows a pass holds are the stories that were unsent and eligible
\* when it selected; once refreshed they carry the refreshed scores and are
\* ordered by relevanceScore descending, ties by external score descending;
\* the stories sent are the first of them in that order, never more than 5,
\* and min(5, n) of them when the pass is done.
C17_TopFiveDelivered ==
  /\ [](Len(delivery.sent) <= 5)
  /\ [](\A i \in 1..Len(delivery.sent) : delivery.sent[i] = delivery.rows[i].id)
  /\ [](delivery.pc \in {"deliver", "done"} =>
          \A i, j \in 1..Len(delivery.rows) :
            i < j => RanksNoLower(delivery.rows[i], delivery.rows[j]))
  /\ [](delivery.pc = "done" =>
          Len(delivery.sent) = Min2(5, Len(delivery.rows)))
  /\ [][(delivery'.runs = delivery.runs + 1 /\ faults' = faults) =>
          RowIds(delivery'.rows) =
            {id \in DOMAIN stories :
               /\ ~stories[id].notificationSent
               /\ \/ stories[id].suppressedUntil = NullDate
                  \/ stories[id].suppressedUntil <= clock}]_vars
  /\ [][(delivery'.runs = delivery.runs /\ faults' = faults) =>
          /\ RowIds(delivery'.rows) = RowIds(delivery.rows)
          /\ Len(delivery'.rows) = Len(delivery.rows)]_vars
  /\ [][\A id \in DOMAIN stories :
          (RefreshedFor(id) /\ stories'[id] # stories[id]) =>
             Yielded(id).relevanceScore = stories'[id].relevanceScore]_vars

\* six stories were eligible: the five that rank first were sent, in their
\* order, and the sixth is left unsent
C17_Witness ==
  /\ delivery.pc = "done"
  /\ delivery.runs = 1
  /\ Len(delivery.rows) = 6
  /\ delivery.sent = <<6, 4, 5, 2, 3>>
  /\ ~stories[1].notificationSent

\* C18 as claimed: when the store fails while a story is refreshed, the pass
\* goes on without that story and keeps every other row.
C18_RefreshFailureIsolated ==
  [][(delivery.pc = "refresh" /\ delivery' # delivery /\ faults' = faults + 1) =>
       /\ delivery'.pc # "rejected"
       /\ RowIds(delivery'.rows) =
            RowIds(delivery.rows) \ {delivery.rows[delivery.at].id}]_vars

(***************************************************************************)
(* Properties of the failures of a pass.                                   *)
(***************************************************************************)
\* C19 as claimed: when checkRelevance fails for a candidate, the pass is
\* not rejected: the candidate leaves the queue as an ignored one does, and
\* the rest of the queue, the remaining sources and the delivery follow.
C19_OracleFailureDropsOneCandidate ==
  [][(ingestion'.error = "RelevanceOracleError" /\ ingestion.error = "none") =>
       /\ ingestion'.pc \in {"candidates", "source", "deliver"}
       /\ \/ ingestion'.queue = Tail(ingestion.queue)
          \/ ingestion'.queue = <<>>]_vars

\* C20 as claimed: no pass leaves the application with a rejected promise
\* that nothing handles.
C20_NoUnhandledFailure == ~ingestion.unhandled

(***************************************************************************)
(* Properties of the interleaving of feedback and the refresh loop.        *)
(***************************************************************************)
\* C21 as claimed: whenever the refresh loop writes a story, the row it
\* computed from is the story as the store holds it at that moment, with all
\* of its feedback events: no recordFeedback has updated the story since the
\* row was read.
C21_NoStaleRefreshWrite ==
  [][\A id \in DOMAIN stories :
       (RefreshedFor(id) /\ stories'[id] # stories[id]) =>
          LET row == delivery.rows[delivery.at]
          IN /\ row.feedbackEvents = EventsOf(feedback_events, id)
             /\ row.relevanceScore = stories[id].relevanceScore
             /\ row.suppressedUntil = stories[id].suppressedUntil]_vars

(***************************************************************************)
(* Further properties of a crawl run.                                      *)
(***************************************************************************)
\* the oracle call of the iteration has returned a click decision
ClickDecided == pc = "decide" /\ pc' # "decide" /\ decision'.action = "click"

\* the link may be followed from the page being visited
Followable(link) ==
  /\ UrlParses(link.href)
  /\ \E domain \in allowlist : HostWithin(UrlHostname[link.href], domain)
  /\ link.href \notin visited
  /\ cur.depth + 1 <= options.maxDepth

\* C22: a click decision changes the queue or the clicks counter only by
\* appending (href, depth + 1) and adding one click, and only for a link of
\* the snapshot with the target id whose host is allowed, whose href has not
\* been visited and whose depth is within maxDepth; a click that is rejected
\* for one of these reasons leaves queue, clicks and visited as they were and
\* leaves the per-page block without a break.
C22_ClickEnqueueGuarded ==
  [][ClickDecided =>
       LET hits == {i \in 1..Len(snapshot.links) :
                      snapshot.links[i].id = decision'.target}
       IN /\ (queue' # queue \/ clicks' # clicks) =>
               \E i \in hits :
                 /\ Followable(snapshot.links[i])
                 /\ queue' = Append(queue, [url |-> snapshot.links[i].href,
                                            depth |-> cur.depth + 1])
                 /\ clicks' = clicks + 1
          /\ (clicks < options.maxClicks
                /\ ~\E i \in hits : Followable(snapshot.links[i])) =>
               /\ queue' = queue
               /\ clicks' = clicks
               /\ visited' = visited
               /\ exit' = "continue"]_vars

\* a first click was followed; on the page it led to, a click back to a
\* visited url was rejected, and the loop goes on to find the queue empty
C22_Witness ==
  /\ clicks = 1
  /\ pagesVisited = 2
  /\ Last(log) = <<"duplicate-click">>
  /\ pc = "loop"
  /\ exit = "continue"
  /\ queue = <<>>

\* C23: once a run given an empty domainAllowlist has started, its allowlist
\* is exactly the host of the seed url when the seed parses; when it does
\* not, the allowlist is empty and the run has returned no candidates without
\* a browser, a page, a fetch or an oracle call.
C23_AllowlistFromSeedOrAbort ==
  (pc # "start" /\ options.domainAllowlist = {}) =>
    IF UrlParses(options.seedUrl)
    THEN allowlist = {UrlHostname[options.seedUrl]}
    ELSE /\ allowlist = {}
         /\ pc = "done"
         /\ returned = [status |-> "returned", value |-> <<>>]
         /\ browser = "null"
         /\ openPages = 0
         /\ pagesVisited = 0
         /\ fetched = <<>>
         /\ outcome = NoOutcome
         /\ candidates = <<>>

\* a run without allowlist whose seed does not parse has returned
C23_Witness ==
  /\ options.domainAllowlist = {}
  /\ options.seedUrl = BadUrl
  /\ pc = "done"
  /\ returned.status = "returned"
  /\ log = <<<<"no-allowlist">>>>

(***************************************************************************)
(* Further properties of scores and suppression.                           *)
(***************************************************************************)
\* C24: a recomputation that yields a score from -150 to 0, or a score above
\* 0 for a story whose suppressedUntil is null or not in the future, yields
\* the suppressedUntil the story had when it was read.
C24_SuppressionOtherwiseUnchanged ==
  [][\A id \in DOMAIN stories :
       Recomputed(id) =>
         LET score == Yielded(id).relevanceScore
             before == AsRead(id).suppressedUntil
         IN (\/ score >= -150 /\ score <= 0
             \/ score > 0 /\ (before = NullDate \/ before <= clock)) =>
              Yielded(id).suppressedUntil = before]_vars

\* two dislikes and a save left the story suppressed for 6 hours; a second
\* save in the same hour brought the score to -137 and the 6 hours stand
C24_Witness ==
  /\ Len(feedback_events) = 4
  /\ [i \in 1..4 |-> feedback_events[i].action]
       = <<"DISLIKE", "DISLIKE", "SAVE", "SAVE">>
  /\ clock = 0
  /\ stories[1].relevanceScore = -137
  /\ stories[1].suppressedUntil = 6

(***************************************************************************)
(* Properties of the creation and the delivery of stories.                 *)
(***************************************************************************)
\* processCandidate has ended for the candidate at the head of the queue
CandidateProcessed == ingestion.pc = "candidates" /\ ingestion' # ingestion

\* C25: processing a candidate whose id is stored calls no oracle and
\* changes no story, feedback event or topic; and saveStory with the id of a
\* stored story, in whatever state that story is, leaves its relevanceScore,
\* suppressedUntil, notificationSent and lastNotifiedAt as they are.
C25_CreatedOnce ==
  /\ [][(CandidateProcessed /\ Head(ingestion.queue) \in DOMAIN stories) =>
          /\ ingestion'.error # "RelevanceOracleError"
          /\ ~ingestion'.asked
          /\ stories' = stories
          /\ feedback_events' = feedback_events
          /\ topics' = topics
          /\ storyTopics' = storyTopics]_vars
  /\ [](\A id \in DOMAIN stories :
          LET saved == saveStory(stories, id, SavedStory(id))[id]
          IN /\ saved.relevanceScore = stories[id].relevanceScore
             /\ saved.suppressedUntil = stories[id].suppressedUntil
             /\ saved.notificationSent = stories[id].notificationSent
             /\ saved.lastNotifiedAt = stories[id].lastNotifiedAt)

\* the second pass has met, as a candidate, the story that the first pass
\* stored and delivered, and goes on with the next candidate
C25_Witness ==
  /\ ingestion.started = 2
  /\ ingestion.pc = "candidates"
  /\ ingestion.candidate = 1
  /\ ~ingestion.asked
  /\ 1 \in DOMAIN stories
  /\ stories[1].notificationSent
  /\ stories[1].lastNotifiedAt # NullDate

\* C26 as claimed: over all passes, no story is handed to the notification
\* sink more than once.
C26_HandedAtMostOnce ==
  \A i, j \in 1..Len(delivery.handed) :
    i # j => delivery.handed[i] # delivery.handed[j]

\* C26: a story marked sent stays marked, whatever is ingested again; no
\* pass selects a marked story or hands one to the sink; and within one pass
\* no story is handed to the sink twice.
C26_SentStaysSent ==
  /\ [][\A id \in DOMAIN stories :
          stories[id].notificationSent =>
            /\ id \in DOMAIN stories'
            /\ stories'[id].notificationSent]_vars
  /\ [][delivery'.runs = delivery.runs + 1 =>
          \A i \in 1..Len(delivery'.rows) :
            ~stories[delivery'.rows[i].id].notificationSent]_vars
  /\ [][Len(delivery'.handed) > Len(delivery.handed) =>
          ~stories[Last(delivery'.handed)].notificationSent]_vars
  /\ [](\A i, j \in 1..Len(delivery.sent) :
          i # j => delivery.sent[i] # delivery.sent[j])

\* the first pass stored, delivered and marked a story; the second pass has
\* selected nothing and ended, the story handed to the sink once
C26_Witness ==
  /\ ingestion.started = 2
  /\ ingestion.pc = "ended"
  /\ delivery.runs = 2
  /\ delivery.rows = <<>>
  /\ delivery.handed = <<1>>
  /\ stories[1].notificationSent

(***************************************************************************)
(* Properties of the release of the single-run guard.                      *)
(***************************************************************************)
\* C27: the flag is set only while a pass is in flight or its callback is
\* due; once a pass has settled, fulfilled or rejected, the flag returns to
\* false; and a trigger handled while the flag is false is answered 200 and
\* starts a pass.
C27_GuardReleased ==
  /\ [](isFetchRunning =>
          \E k \in 1..MaxTriggers :
            passes[k].pc \in {"ingest", "deliver", "resolved", "rejected"})
  /\ \A k \in 1..MaxTriggers :
       (passes[k].pc \in {"resolved", "rejected"}) ~> ~isFetchRunning
  /\ [][(triggers' = triggers + 1 /\ ~isFetchRunning) =>
          /\ Last(responses').code = 200
          /\ passes'[triggers'].pc = "ingest"
          /\ isFetchRunning']_vars

\* the first pass was rejected, the flag was released, and the trigger that
\* came next was accepted and started a pass
C27_Witness ==
  /\ passes[1].pc = "failed"
  /\ passes[2].pc = "ingest"
  /\ isFetchRunning
  /\ Len(responses) = 2
  /\ responses[2].code = 200

\* C28: the work queue of a run never holds more than one entry, and the run
\* never holds, and so never returns, more than one candidate, whatever
\* maxCandidates is.
C28_SingleChain ==
  /\ Len(queue) <= 1
  /\ Len(candidates) <= 1
  /\ returned.status = "returned" => Len(returned.value) <= 1

\* a run allowed two candidates followed a click, extracted one candidate
\* and ended with it, the queue empty
C28_Witness ==
  /\ options.maxCandidates = 2
  /\ pc = "done"
  /\ clicks = 1
  /\ queue = <<>>
  /\ Len(returned.value) = 1
  /\ ~Logged(<<"max-candidates">>)

(***************************************************************************)
(* Properties of the direction of a recomputation.                         *)
(***************************************************************************)
\* feedback in favour of the story: an explicit LIKE or SAVE, an implicit OPENED
InFavour(event) ==
  \/ event.confidence # "implicit" /\ event.action \in {"LIKE", "SAVE"}
  \/ event.confidence = "implicit" /\ event.action = "OPENED"

\* feedback against the story: an explicit DISLIKE, an implicit IGNORED
Against(event) ==
  \/ event.confidence # "implicit" /\ event.action = "DISLIKE"
  \/ event.confidence = "implicit" /\ event.action = "IGNORED"

AllInFavour(events) ==
  events # <<>> /\ \A i \in 1..Len(events) : InFavour(events[i])

AllAgainst(events) ==
  events # <<>> /\ \A i \in 1..Len(events) : Against(events[i])

\* the feedback events the recomputation read
EventsAsRead(id) ==
  IF RecordedFor(id) THEN EventsOf(feedback_events', id)
  ELSE delivery.rows[delivery.at].feedbackEvents

\* C29 as claimed: a recomputation for a story whose events are all in
\* favour leaves the stored relevanceScore no lower than it was, and one for
\* a story whose events are all against leaves it no higher.
C29_StoredScoreMonotone ==
  [][\A id \in DOMAIN stories :
       Recomputed(id) =>
         /\ AllInFavour(EventsOf(feedback_events', id)) =>
              stories'[id].relevanceScore >= stories[id].relevanceScore
         /\ AllAgainst(EventsOf(feedback_events', id)) =>
              stories'[id].relevanceScore <= stories[id].relevanceScore]_vars

\* What holds of every recomputation, next to C29: one that read only events
\* in favour yields a relevanceScore no lower than the one of the story as it
\* read it, and one that read only events against yields one no higher.
C29_MonotoneFromScoreRead ==
  [][\A id \in DOMAIN stories :
       Recomputed(id) =>
         /\ AllInFavour(EventsAsRead(id)) =>
              Yielded(id).relevanceScore >= AsRead(id).relevanceScore
         /\ AllAgainst(EventsAsRead(id)) =>
              Yielded(id).relevanceScore <= AsRead(id).relevanceScore]_vars

(***************************************************************************)
(* Properties of a delivery whose notification sink fails.                 *)
(***************************************************************************)
\* the ids the sink failed for in this step
SinkFailedFor == delivery'.undelivered \ delivery.undelivered

\* C30: a story whose notification the sink failed to deliver is marked sent
\* all the same and the loop goes on to the next selected story; when the
\* delivery is done, every selected story is marked sent, delivered or not.
C30_SinkFailureNeitherStopsNorUnmarks ==
  /\ [][\A id \in SinkFailedFor :
          faults' = faults =>
            /\ stories'[id].notificationSent
            /\ stories'[id].lastNotifiedAt = clock
            /\ delivery'.pc = IF delivery.at < Len(topStories(delivery.rows))
                              THEN "deliver" ELSE "done"
            /\ delivery'.at = delivery.at + 1]_vars
  /\ [](delivery.pc = "done" =>
          /\ Len(delivery.sent) = Len(topStories(delivery.rows))
          /\ \A i \in 1..Len(delivery.sent) :
               /\ delivery.sent[i] = topStories(delivery.rows)[i].id
               /\ stories[delivery.sent[i]].notificationSent)

\* a delivery of three stories is done: the sink failed for the first and
\* the second, all three are marked sent, no store call failed
C30_Witness ==
  /\ delivery.pc = "done"
  /\ faults = 0
  /\ Len(delivery.sent) = 3
  /\ delivery.undelivered = {delivery.sent[1], delivery.sent[2]}
  /\ \A i \in 1..3 : stories[delivery.sent[i]].notificationSent

====
